---- MODULE Spec2Model ----
(***************************************************************************)
(* Model of the Postmark MCP server's tool layer:                          *)
(*   - the template store accessor (listTemplateCategories,                *)
(*     listTemplatesInCategory, getTemplateContent, getTemplateIdeas) of   *)
(*     src/src/tools/registerTools.js lines 422-526, run against a         *)
(*     template tree that an external process may change between the       *)
(*     accessor's awaits;                                                  *)
(*   - the tool handlers of registerTools (lines 12-301);                  *)
(*   - the process around them (the main script, src/unnamed/part_000):    *)
(*     startup, tool registration, signal and fatal-error handlers.        *)
(* Names are sequences of one-letter strings so that toLowerCase and       *)
(* String.prototype.includes are computed, not assumed.                    *)
(***************************************************************************)
EXTENDS Integers, Sequences, FiniteSets, TLC

VARIABLES fs, mutCount, inv, env, calls, server

vars == <<fs, mutCount, inv, env, calls, server>>

(***************************************************************************)
(* Bounds                                                                  *)
(***************************************************************************)
\* external changes of the template tree in one behaviour
MaxMutations == 1
\* length of the search topics tried by getTemplateIdeas
MaxTopicLen == 1
\* provider calls recorded in one behaviour
MaxCalls == 1
\* handlers of signals and fatal events waiting for disconnect() at a time
MaxSignals == 2

(***************************************************************************)
(* Values                                                                  *)
(***************************************************************************)
\* a JavaScript argument: a string (sequence of letters) or undefined
Str(s) == [t |-> "string", v |-> s]
Undef == [t |-> "undefined", v |-> <<>>]
IsString(a) == a.t = "string"

Letters == {"a", "A", "b", "B"}
\* Greek capital sigma, small sigma and final small sigma
GreekLetters == {"SIGMA", "sigma", "fsigma"}

\* the context-free lower-case mapping of one letter (UnicodeData.txt)
LowerChar(c) ==
  CASE c = "A" -> "a"
    [] c = "B" -> "b"
    [] c = "SIGMA" -> "sigma"
    [] OTHER -> c

\* String.prototype.toLowerCase: the locale-insensitive mappings of
\* UnicodeData.txt and SpecialCasing.txt, whose Final_Sigma rule maps a capital
\* sigma that follows a cased letter and is followed by none to the final
\* small sigma (every letter of the model's alphabet is cased)
ToLowerCase(s) ==
  [i \in 1..Len(s) |->
     IF s[i] = "SIGMA" /\ i > 1 /\ i = Len(s) THEN "fsigma" ELSE LowerChar(s[i])]

\* String.prototype.includes: sub occurs in s as a contiguous substring
Includes(s, sub) ==
  \E i \in 0..(Len(s) - Len(sub)) : SubSeq(s, i + 1, i + Len(sub)) = sub

\* file names chosen by getTemplateContent
HtmlFile == <<"content.html">>
TextFile == <<"content.txt">>

\* Buffer.toString("utf8") on the byte values the model's files hold:
\* one-byte code points, the two-byte sequence C3 xx, and U+FFFD for a byte
\* that starts no valid sequence
RECURSIVE Utf8Decode(_)
Utf8Decode(bytes) ==
  IF bytes = <<>> THEN <<>>
  ELSE IF Head(bytes) < 128
    THEN <<Head(bytes)>> \o Utf8Decode(Tail(bytes))
  ELSE IF Head(bytes) = 195 /\ Len(bytes) >= 2 /\ bytes[2] >= 128 /\ bytes[2] < 192
    THEN <<64 + bytes[2]>> \o Utf8Decode(Tail(Tail(bytes)))
  ELSE <<65533>> \o Utf8Decode(Tail(bytes))

(***************************************************************************)
(* The template tree: <base>/<category>/<template>/content.{html,txt}      *)
(*   kind "dir"    a readable directory                                    *)
(*        "file"   a readable regular file                                 *)
(*        "noperm" a directory without read/search permission              *)
(*        "link"   a symbolic link to a readable directory                 *)
(*        "absent" no such entry                                           *)
(***************************************************************************)
NoNode == [kind |-> "absent", bytes |-> <<>>]
FileNode(b) == [kind |-> "file", bytes |-> b]
DirNode == [kind |-> "dir", bytes |-> <<>>]

Tpl(n, k, h, t) == [name |-> n, kind |-> k, html |-> h, text |-> t]
Cat(n, k, ts) == [name |-> n, kind |-> k, tpls |-> ts]

HtmlBytes == <<60, 104, 62>>
TextBytes == <<87>>
AccentBytes == <<195, 169, 255>>

TplLists ==
  { <<>>,
    << Tpl(<<"a", "b">>, "dir", FileNode(HtmlBytes), FileNode(TextBytes)),
       Tpl(<<"A", "B">>, "dir", NoNode, NoNode) >>,
    << Tpl(<<"b">>, "file", NoNode, NoNode),
       Tpl(<<"B", "a">>, "dir", FileNode(AccentBytes), NoNode) >>,
    << Tpl(<<"a">>, "dir", DirNode, FileNode(TextBytes)),
       Tpl(<<"a", "sigma", "b">>, "dir", NoNode, NoNode) >> }

CatName1 == <<"c">>
CatName2 == <<"d">>
TplNames == { <<"a", "b">>, <<"A", "B">>, <<"b">>, <<"B", "a">>, <<"a">>,
              <<"a", "sigma", "b">> }

FirstCats ==
  { Cat(CatName1, k, ts) : k \in {"dir", "noperm", "link"}, ts \in TplLists }
    \cup { Cat(CatName1, "file", <<>>) }

CatLists ==
  { <<>> } \cup { <<c>> : c \in FirstCats }
    \cup { <<c, Cat(CatName2, "dir", ts)>> : c \in FirstCats, ts \in TplLists \ { <<>> } }

Trees ==
  { [base |-> b, cats |-> <<>>] : b \in {"absent", "file", "noperm"} }
    \cup { [base |-> b, cats |-> cs] : b \in {"dir", "link"}, cs \in CatLists }

\* path components may be followed through this kind of entry
Traversable(kind) == kind \in {"dir", "link"}

\* index of the entry called name in a listing, 0 if there is none
IndexOf(entries, name) ==
  IF \E i \in 1..Len(entries) : entries[i].name = name
    THEN CHOOSE i \in 1..Len(entries) : entries[i].name = name
    ELSE 0

\* the node a path (sequence of names below the base path) resolves to,
\* following symbolic links; "absent" when a component is missing or cannot
\* be traversed
NodeAt(tree, path) ==
  IF Len(path) = 0 THEN [kind |-> tree.base, bytes |-> <<>>]
  ELSE IF ~Traversable(tree.base) THEN NoNode
  ELSE LET ci == IndexOf(tree.cats, path[1]) IN
    IF ci = 0 THEN NoNode
    ELSE IF Len(path) = 1 THEN [kind |-> tree.cats[ci].kind, bytes |-> <<>>]
    ELSE IF ~Traversable(tree.cats[ci].kind) THEN NoNode
    ELSE LET ti == IndexOf(tree.cats[ci].tpls, path[2]) IN
      IF ti = 0 THEN NoNode
      ELSE IF Len(path) = 2
        THEN [kind |-> tree.cats[ci].tpls[ti].kind, bytes |-> <<>>]
      ELSE IF tree.cats[ci].tpls[ti].kind # "dir" \/ Len(path) > 3 THEN NoNode
      ELSE IF path[3] = HtmlFile THEN tree.cats[ci].tpls[ti].html
      ELSE IF path[3] = TextFile THEN tree.cats[ci].tpls[ti].text
      ELSE NoNode

\* the directory entries (name, kind) of the directory at path (the base path
\* or a category: the accessor lists nothing deeper), in the file system's
\* listing order
Dirents(tree, path) ==
  IF Len(path) = 0
    THEN [i \in 1..Len(tree.cats) |->
            [name |-> tree.cats[i].name, kind |-> tree.cats[i].kind]]
  ELSE LET ts == tree.cats[IndexOf(tree.cats, path[1])].tpls IN
    [i \in 1..Len(ts) |-> [name |-> ts[i].name, kind |-> ts[i].kind]]

(***************************************************************************)
(* fs/promises calls.  Each is evaluated against the tree as it is at the  *)
(* moment the call runs; fault stands for an I/O error of the device (EIO) *)
(* that the call may raise whatever the tree holds.                        *)
(***************************************************************************)
\* path.join: throws a TypeError when an argument is not a string, drops
\* empty segments; the result is the sequence of names below the base path
Join(base, parts) ==
  IF ~IsString(base) \/ \E i \in 1..Len(parts) : ~IsString(parts[i])
    THEN [err |-> "ERR_INVALID_ARG_TYPE", path |-> <<>>]
    ELSE [err |-> "", path |-> SelectSeq([i \in 1..Len(parts) |-> parts[i].v],
                                          LAMBDA n : n # <<>>)]

\* access(path, F_OK | R_OK) resolves (TRUE) or rejects (FALSE)
Access(tree, path) == NodeAt(tree, path).kind \in {"dir", "file", "link"}

\* lstat(path): does not follow a symbolic link in the last component
Lstat(tree, path, fault) ==
  LET k == NodeAt(tree, path).kind IN
  IF fault THEN [err |-> "EIO", isDirectory |-> FALSE]
  ELSE IF k = "absent" THEN [err |-> "ENOENT", isDirectory |-> FALSE]
  ELSE [err |-> "", isDirectory |-> k \in {"dir", "noperm"}]

\* Dirent.isDirectory(): a symbolic link is not a directory
IsDirectory(dirent) == dirent.kind \in {"dir", "noperm"}

\* readdir(path, {withFileTypes: true})
Readdir(tree, path, fault) ==
  LET k == NodeAt(tree, path).kind IN
  IF fault THEN [err |-> "EIO", entries |-> <<>>]
  ELSE IF k = "absent" THEN [err |-> "ENOENT", entries |-> <<>>]
  ELSE IF k = "file" THEN [err |-> "ENOTDIR", entries |-> <<>>]
  ELSE IF k = "noperm" THEN [err |-> "EACCES", entries |-> <<>>]
  ELSE [err |-> "", entries |-> Dirents(tree, path)]

\* readFile(path, "utf8")
ReadFile(tree, path, fault) ==
  LET n == NodeAt(tree, path) IN
  IF fault THEN [err |-> "EIO", content |-> <<>>]
  ELSE IF n.kind = "absent" THEN [err |-> "ENOENT", content |-> <<>>]
  ELSE IF n.kind # "file" THEN [err |-> "EISDIR", content |-> <<>>]
  ELSE [err |-> "", content |-> Utf8Decode(n.bytes)]

(***************************************************************************)
(* Result envelopes and the outcome of one step of an async function       *)
(***************************************************************************)
Msg(text, arg, path) == [text |-> text, arg |-> arg, path |-> path]
\* String(error?.message || error) of a rejected fs call
ErrorMessage(err, syscall, path) == Msg(err, syscall, path)

Fail(code, message) == [ok |-> FALSE, code |-> code, message |-> message]
OkCategories(names) == [ok |-> TRUE, categories |-> names]
OkTemplates(names) == [ok |-> TRUE, templates |-> names]
OkContent(c) == [ok |-> TRUE, content |-> c]
OkIdeas(is) == [ok |-> TRUE, ideas |-> is]

Return(v) == [k |-> "return", v |-> v]
Throw(e) == [k |-> "throw", v |-> e]
Await(pc) == [k |-> "await", v |-> pc]

\* mutant: the outer catch is missing, the exception leaves the function
TryCatchMissing(r) == r

\* the accessors' outer try { ... } catch (error) { return IO_ERROR }
TryCatch(r) ==
  IF r.k = "throw" THEN Return(Fail("IO_ERROR", r.v)) ELSE r

\* mutant: the isDirectory() filter is missing
DirectoryNamesUnfiltered(entries) ==
  [i \in 1..Len(entries) |-> entries[i].name]

\* entries.filter((e) => e.isDirectory()).map((e) => e.name)
DirectoryNames(entries) ==
  LET dirs == SelectSeq(entries, IsDirectory) IN
  [i \in 1..Len(dirs) |-> dirs[i].name]

(***************************************************************************)
(* listTemplateCategories / listTemplatesInCategory, one operator per      *)
(* await.  fn is "categories" or "templates": the two functions differ in  *)
(* their messages and in the payload key only.                             *)
(***************************************************************************)
NotFoundText(fn) ==
  IF fn = "categories" THEN "Directory not found at path: "
  ELSE "Category directory not found at path: "

NotDirText(fn) ==
  IF fn = "categories" THEN "Path is not a directory: "
  ELSE "Category path is not a directory: "

\* await access(...) in its own try/catch
ListAccess(fn, tree, path, badArg) ==
  IF badArg \/ ~Access(tree, path)
    THEN Return(Fail("NOT_FOUND", Msg(NotFoundText(fn), "", path)))
    ELSE Await("lstat")

\* mutant: the isDirectory() check is missing
ListLstatNoTypeCheck(fn, tree, path, fault) ==
  LET st == Lstat(tree, path, fault) IN
  IF st.err # "" THEN Throw(ErrorMessage(st.err, "lstat", path))
  ELSE Await("readdir")

\* const stat = await lstat(...); if (!stat.isDirectory()) ...
ListLstat(fn, tree, path, fault) ==
  LET st == Lstat(tree, path, fault) IN
  IF st.err # "" THEN Throw(ErrorMessage(st.err, "lstat", path))
  ELSE IF ~st.isDirectory
    THEN Return(Fail("NOT_DIR", Msg(NotDirText(fn), "", path)))
  ELSE Await("readdir")

\* const entries = await readdir(...); return {ok: true, ...}
ListReaddir(fn, tree, path, fault) ==
  LET rd == Readdir(tree, path, fault) IN
  IF rd.err # "" THEN Throw(ErrorMessage(rd.err, "scandir", path))
  ELSE IF fn = "categories" THEN Return(OkCategories(DirectoryNames(rd.entries)))
  ELSE Return(OkTemplates(DirectoryNames(rd.entries)))

(***************************************************************************)
(* getTemplateContent                                                      *)
(***************************************************************************)
\* mutant: the format is ignored
FileNameAlwaysHtml(format) == HtmlFile

\* const fileName = format === "text" ? "content.txt" : "content.html"
FileName(format) == IF format = Str(<<"text">>) THEN TextFile ELSE HtmlFile

\* the default parameter value format = "html"
FormatOrDefault(format) == IF IsString(format) THEN format ELSE Str(<<"html">>)

\* mutant: the access probe is missing, the file is read at once
ContentAccessNoProbe(format, tree, path) == Await("readFile")

\* await access(templatePath, ...) in its own try/catch
ContentAccess(format, tree, path) ==
  IF ~Access(tree, path)
    THEN Return(Fail("NOT_FOUND",
                     Msg("Template content not found at path: ", format.v, path)))
    ELSE Await("readFile")

ContentReadFile(tree, path, fault) ==
  LET rf == ReadFile(tree, path, fault) IN
  IF rf.err # "" THEN Throw(ErrorMessage(rf.err, "open", path))
  ELSE Return(OkContent(rf.content))

(***************************************************************************)
(* getTemplateIdeas: the code between its awaits                           *)
(***************************************************************************)
\* for (const template of templates)
\*   if (template.toLowerCase().includes(topicLower)) ideas.push({category, template})
MatchingIdeas(category, templates, topicLower) ==
  LET hits == SelectSeq(templates,
                        LAMBDA t : Includes(ToLowerCase(t), topicLower)) IN
  [i \in 1..Len(hits) |-> [category |-> category, template |-> hits[i]]]

\* mutant: the ideas of a category are put in front (unshift for push)
IdeasAfterTemplatesInFront(ideas, category, templatesRes, topicLower) ==
  IF ~templatesRes.ok THEN ideas
  ELSE MatchingIdeas(category, templatesRes.templates, topicLower) \o ideas

\* if (!templatesRes.ok) continue; ... ideas.push(...)
IdeasAfterTemplates(ideas, category, templatesRes, topicLower) ==
  IF ~templatesRes.ok THEN ideas
  ELSE ideas \o MatchingIdeas(category, templatesRes.templates, topicLower)

\* mutant: a failed enumeration is reported as an empty search result
IdeasCategoriesFailureAsEmpty(categoriesRes) == OkIdeas(<<>>)

\* if (!categoriesRes.ok) return {ok: false, code, message}
IdeasCategoriesFailure(categoriesRes) ==
  Fail(categoriesRes.code, categoriesRes.message)

(***************************************************************************)
(* Invocations.  inv[p] is one call of an accessor or of a tool handler;   *)
(* pc names the await it is suspended at.                                  *)
(***************************************************************************)
ProcIds == {1}

BasePath == Str(<<"base">>)
NoResult == [none |-> TRUE]
NoArgs == [none |-> TRUE]

Idle ==
  [op |-> "idle", args |-> NoArgs, pc |-> "idle", fn |-> "", target |-> <<>>,
   badArg |-> FALSE, topicLower |-> <<>>, cats |-> <<>>, idx |-> 0,
   ideas |-> <<>>, categoriesRes |-> NoResult, failed |-> <<>>,
   mutated |-> FALSE, faulted |-> FALSE, result |-> NoResult]

\* the invocation ends: v is what the caller's await yields
Finish(r, v) == [r EXCEPT !.pc = "done", !.result = v]

\* the invocation ends with an exception reaching the caller
Raise(r, e) == [r EXCEPT !.pc = "done", !.result = [thrown |-> TRUE, error |-> e]]

\* mutant: a category that cannot be listed ends the search with its failure
IdeasResumeAborting(r, v) ==
  IF r.fn = "categories" THEN
    LET r1 == [r EXCEPT !.categoriesRes = v] IN
    IF ~v.ok THEN Finish(r1, IdeasCategoriesFailure(v))
    ELSE IF Len(v.categories) = 0 THEN Finish(r1, OkIdeas(<<>>))
    ELSE [r1 EXCEPT !.cats = v.categories, !.idx = 1, !.fn = "templates",
                    !.target = <<v.categories[1]>>, !.pc = "access"]
  ELSE IF ~v.ok THEN Finish(r, Fail(v.code, v.message))
  ELSE
    LET ideas2 == IdeasAfterTemplates(r.ideas, r.cats[r.idx], v, r.topicLower)
        r1 == [r EXCEPT !.ideas = ideas2]
    IN
    IF r.idx = Len(r.cats) THEN Finish(r1, OkIdeas(ideas2))
    ELSE [r1 EXCEPT !.idx = r.idx + 1,
                    !.target = <<r.cats[r.idx + 1]>>, !.pc = "access"]

\* getTemplateIdeas resumes with the envelope v of the list call it awaited
\* (categoriesRes is the local of that name; failed records the categories
\* whose templatesRes was not ok)
IdeasResume(r, v) ==
  IF r.fn = "categories" THEN
    LET r1 == [r EXCEPT !.categoriesRes = v] IN
    IF ~v.ok THEN Finish(r1, IdeasCategoriesFailure(v))
    ELSE IF Len(v.categories) = 0 THEN Finish(r1, OkIdeas(<<>>))
    ELSE [r1 EXCEPT !.cats = v.categories, !.idx = 1, !.fn = "templates",
                    !.target = <<v.categories[1]>>, !.pc = "access"]
  ELSE
    LET ideas2 == IdeasAfterTemplates(r.ideas, r.cats[r.idx], v, r.topicLower)
        r1 == [r EXCEPT !.ideas = ideas2,
                        !.failed = IF v.ok THEN @ ELSE Append(@, r.cats[r.idx])]
    IN
    IF r.idx = Len(r.cats) THEN Finish(r1, OkIdeas(ideas2))
    ELSE [r1 EXCEPT !.idx = r.idx + 1,
                    !.target = <<r.cats[r.idx + 1]>>, !.pc = "access"]

\* the outcome o of the accessor function that is running in r is applied:
\* it suspends at its next await, returns to its caller, or throws
Resume(r, o) ==
  IF o.k = "await" THEN [r EXCEPT !.pc = o.v]
  ELSE IF o.k = "throw" THEN
    IF r.op = "getTemplateIdeas"
      THEN LET c == TryCatch(o) IN
           IF c.k = "throw" THEN Raise(r, o.v) ELSE Finish(r, c.v)
      ELSE Raise(r, o.v)
  ELSE IF r.op = "getTemplateIdeas" THEN IdeasResume(r, o.v)
  ELSE Finish(r, o.v)

(***************************************************************************)
(* Arguments tried                                                         *)
(***************************************************************************)
RECURSIVE SeqsUpTo(_, _)
SeqsUpTo(S, n) ==
  IF n = 0 THEN { <<>> }
  ELSE LET shorter == SeqsUpTo(S, n - 1) IN
       shorter \cup { Append(s, x) : s \in shorter, x \in S }

BaseArgs == { BasePath, Undef }
CategoryArgs == { Str(CatName1), Str(CatName2), Str(<<>>), Undef }
ContentCategoryArgs == { Str(CatName1), Str(CatName2) }
TemplateArgs == { Str(n) : n \in TplNames } \cup { Undef }
FormatArgs == { Str(<<"html">>), Str(<<"text">>), Str(<<"xml">>), Undef }
TopicArgs == { Str(s) : s \in SeqsUpTo(Letters, MaxTopicLen) }
                \cup { Str(<<"a", "b">>), Str(<<"A", "B">>),
                       Str(<<"a", "sigma">>), Str(<<"A", "SIGMA">>), Undef }

(***************************************************************************)
(* Calls of the accessor                                                   *)
(***************************************************************************)
\* listTemplateCategories(templatesBasePath), up to await access(...)
EnterListTemplateCategories(base) ==
  [Idle EXCEPT !.op = "listTemplateCategories",
               !.args = [base |-> base],
               !.fn = "categories", !.target = <<>>,
               !.badArg = ~IsString(base), !.pc = "access"]

CallListTemplateCategories(p, base) ==
  /\ inv[p].pc = "idle"
  /\ inv' = [inv EXCEPT ![p] = EnterListTemplateCategories(base)]
  /\ UNCHANGED <<fs, mutCount, env, calls, server>>

\* listTemplatesInCategory(templatesBasePath, categoryName), up to await access(...)
EnterListTemplatesInCategory(base, cat) ==
  LET j == Join(base, <<cat>>)
      r == [Idle EXCEPT !.op = "listTemplatesInCategory",
                        !.args = [base |-> base, categoryName |-> cat],
                        !.fn = "templates", !.target = j.path, !.pc = "access"]
  IN IF j.err # ""
       THEN Resume(r, TryCatch(Throw(ErrorMessage(j.err, "join", <<>>))))
       ELSE r

CallListTemplatesInCategory(p, base, cat) ==
  /\ inv[p].pc = "idle"
  /\ inv' = [inv EXCEPT ![p] = EnterListTemplatesInCategory(base, cat)]
  /\ UNCHANGED <<fs, mutCount, env, calls, server>>

\* getTemplateContent(templatesBasePath, categoryName, templateName, format),
\* up to await access(...)
EnterGetTemplateContent(base, cat, tpl, format) ==
  LET f == FormatOrDefault(format)
      j == Join(base, <<cat, tpl, Str(FileName(f))>>)
      r == [Idle EXCEPT !.op = "getTemplateContent",
                        !.args = [base |-> base, categoryName |-> cat,
                                  templateName |-> tpl, format |-> format],
                        !.fn = "content", !.target = j.path, !.pc = "access"]
  IN IF j.err # ""
       THEN Resume(r, TryCatch(Throw(ErrorMessage(j.err, "join", <<>>))))
       ELSE r

CallGetTemplateContent(p, base, cat, tpl, format) ==
  /\ inv[p].pc = "idle"
  /\ inv' = [inv EXCEPT ![p] = EnterGetTemplateContent(base, cat, tpl, format)]
  /\ UNCHANGED <<fs, mutCount, env, calls, server>>

\* getTemplateIdeas(templatesBasePath, topic), up to the await access(...) of
\* the listTemplateCategories call it makes
EnterGetTemplateIdeas(base, topic) ==
  LET r == [Idle EXCEPT !.op = "getTemplateIdeas",
                        !.args = [base |-> base, topic |-> topic],
                        !.fn = "categories", !.target = <<>>,
                        !.badArg = ~IsString(base), !.pc = "access"]
  IN IF ~IsString(topic)
       THEN Resume(r, Throw(ErrorMessage("TypeError", "toLowerCase", <<>>)))
       ELSE [r EXCEPT !.topicLower = ToLowerCase(topic.v)]

CallGetTemplateIdeas(p, base, topic) ==
  /\ inv[p].pc = "idle"
  /\ inv' = [inv EXCEPT ![p] = EnterGetTemplateIdeas(base, topic)]
  /\ UNCHANGED <<fs, mutCount, env, calls, server>>

(***************************************************************************)
(* The awaited file system calls complete                                  *)
(***************************************************************************)
\* the fs call the invocation r waits for settles against the tree, with a
\* device error or without, and the accessor runs to its next await or to
\* its end
FsSettled(r0, tree, fault) ==
  LET r == [r0 EXCEPT !.faulted = @ \/ fault] IN
  CASE r.pc = "access" ->
         IF r.fn = "content"
           THEN Resume(r, TryCatch(ContentAccess(FormatOrDefault(r.args.format),
                                                 tree, r.target)))
           ELSE Resume(r, TryCatch(ListAccess(r.fn, tree, r.target, r.badArg)))
    [] r.pc = "lstat" -> Resume(r, TryCatch(ListLstat(r.fn, tree, r.target, fault)))
    [] r.pc = "readdir" -> Resume(r, TryCatch(ListReaddir(r.fn, tree, r.target, fault)))
    [] r.pc = "readFile" -> Resume(r, TryCatch(ContentReadFile(tree, r.target, fault)))

\* mutant: the path is kept where the invocations in flight share it, the
\* probe sees the path of the invocation that started last
AccessStepSharedPath(p) ==
  /\ inv[p].pc = "access"
  /\ LET others == { q \in DOMAIN inv : q # p /\ inv[q].pc # "idle" }
         target == IF others = {} THEN inv[p].target
                   ELSE inv[CHOOSE q \in others : TRUE].target
     IN inv' = [inv EXCEPT ![p] =
                  FsSettled([inv[p] EXCEPT !.target = target], fs, FALSE)]
  /\ UNCHANGED <<fs, mutCount, env, calls, server>>

AccessStep(p) ==
  /\ inv[p].pc = "access"
  /\ inv' = [inv EXCEPT ![p] = FsSettled(inv[p], fs, FALSE)]
  /\ UNCHANGED <<fs, mutCount, env, calls, server>>

LstatStep(p) ==
  /\ inv[p].pc = "lstat"
  /\ \E fault \in BOOLEAN : inv' = [inv EXCEPT ![p] = FsSettled(inv[p], fs, fault)]
  /\ UNCHANGED <<fs, mutCount, env, calls, server>>

ReaddirStep(p) ==
  /\ inv[p].pc = "readdir"
  /\ \E fault \in BOOLEAN : inv' = [inv EXCEPT ![p] = FsSettled(inv[p], fs, fault)]
  /\ UNCHANGED <<fs, mutCount, env, calls, server>>

ReadFileStep(p) ==
  /\ inv[p].pc = "readFile"
  /\ \E fault \in BOOLEAN : inv' = [inv EXCEPT ![p] = FsSettled(inv[p], fs, fault)]
  /\ UNCHANGED <<fs, mutCount, env, calls, server>>

\* the caller has taken the result; the slot is free for the next call
Complete(p) ==
  /\ inv[p].pc = "done"
  /\ inv' = [inv EXCEPT ![p] = Idle]
  /\ UNCHANGED <<fs, mutCount, env, calls, server>>

(***************************************************************************)
(* The external process that owns the template tree removes entries.       *)
(* Every invocation not yet handed back is marked: the tree is no longer   *)
(* the one it ran against.                                                 *)
(***************************************************************************)
RemoveAt(seq, i) == SubSeq(seq, 1, i - 1) \o SubSeq(seq, i + 1, Len(seq))

Disturbed == [p \in ProcIds |->
                IF inv[p].pc # "idle" THEN [inv[p] EXCEPT !.mutated = TRUE]
                ELSE inv[p]]

Mutate(tree) ==
  /\ mutCount < MaxMutations
  /\ fs' = tree
  /\ mutCount' = mutCount + 1
  /\ inv' = Disturbed
  /\ UNCHANGED <<env, calls, server>>

RemoveBasePath ==
  /\ fs.base # "absent"
  /\ Mutate([base |-> "absent", cats |-> <<>>])

RemoveCategory(i) ==
  Mutate([fs EXCEPT !.cats = RemoveAt(@, i)])

RemoveTemplate(i, j) ==
  Mutate([fs EXCEPT !.cats[i].tpls = RemoveAt(@, j)])

RemoveContentFile(i, j, field) ==
  /\ fs.cats[i].tpls[j][field].kind # "absent"
  /\ Mutate([fs EXCEPT !.cats[i].tpls[j][field] = NoNode])

(***************************************************************************)
(* sendEmail tool handler                                                  *)
(***************************************************************************)
\* JavaScript truthiness of an optional string argument
Truthy(a) == IsString(a) /\ a.v # <<>>

\* a || b
OrElse(a, b) == IF Truthy(a) THEN a ELSE b

\* mutant: the message stream is a literal, not the configured one
SendEmailDataFixedStream(a, e) ==
  [From |-> OrElse(a.from, e.DEFAULT_SENDER_EMAIL),
   To |-> a.to,
   Subject |-> a.subject,
   TextBody |-> a.textBody,
   MessageStream |-> Str(<<"outbound">>),
   TrackOpens |-> TRUE,
   TrackLinks |-> "HtmlAndText"]

\* emailData as it is when postmarkClient.sendEmail is called
SendEmailData(a, e) ==
  LET emailData ==
        [From |-> OrElse(a.from, e.DEFAULT_SENDER_EMAIL),
         To |-> a.to,
         Subject |-> a.subject,
         TextBody |-> a.textBody,
         MessageStream |-> e.DEFAULT_MESSAGE_STREAM,
         TrackOpens |-> TRUE,
         TrackLinks |-> "HtmlAndText"]
      withHtml == IF Truthy(a.htmlBody)
                    THEN emailData @@ ("HtmlBody" :> a.htmlBody) ELSE emailData
  IN IF Truthy(a.tag) THEN withHtml @@ ("Tag" :> a.tag) ELSE withHtml

\* the text block the handler returns
SendEmailText(a, messageId) ==
  [content |-> <<"Email sent successfully!", "MessageID: ", messageId,
                 "To: ", a.to, "Subject: ", a.subject>>]

OptionalArgs(x) == { Undef, Str(<<>>), Str(<<x>>) }

SendEmailArgs ==
  [to : { Str(<<"to@example.com">>) },
   subject : { Str(<<"S">>) },
   textBody : { Str(<<"T">>) },
   htmlBody : OptionalArgs("<p>T</p>"),
   from : OptionalArgs("other@example.com"),
   tag : OptionalArgs("news")]

Envs ==
  [DEFAULT_SENDER_EMAIL : { Str(<<"from@example.com">>), Str(<<"noreply@example.com">>) },
   DEFAULT_MESSAGE_STREAM : { Str(<<"outbound">>), Str(<<"broadcast">>) },
   POSTMARK_SERVER_TOKEN : { Str(<<"server">>) },
   POSTMARK_ACCOUNT_TOKEN : { Undef, Str(<<>>), Str(<<"acct">>) }]

\* the handler runs to await postmarkClient.sendEmail(emailData)
CallSendEmail(p, a) ==
  /\ inv[p].pc = "idle"
  /\ Len(calls) < MaxCalls
  /\ calls' = Append(calls, [method |-> "sendEmail", args |-> a,
                             data |-> SendEmailData(a, env)])
  /\ inv' = [inv EXCEPT ![p] =
       [Idle EXCEPT !.op = "sendEmail", !.args = a, !.pc = "provider"]]
  /\ UNCHANGED <<fs, mutCount, env, server>>

(***************************************************************************)
(* sendEmailWithTemplate tool handler                                      *)
(***************************************************************************)
Num(n) == [t |-> "number", v |-> n]

\* JavaScript truthiness of a string, a number or undefined
IsTruthy(a) == IF a.t = "number" THEN a.v # 0 ELSE Truthy(a)

\* new Error(text)
Error(text) == Msg(text, "Error", <<>>)

\* mutant: the handler builds the payload without validating its input
TemplateRefMissingNever(a) == FALSE

\* !templateId && !templateAlias
TemplateRefMissing(a) == ~IsTruthy(a.templateId) /\ ~IsTruthy(a.templateAlias)

\* mutant: From is the argument alone, without the configured default
SendEmailWithTemplateDataNoDefault(a, e) ==
  [From |-> a.from,
   To |-> a.to,
   TemplateModel |-> a.templateModel,
   MessageStream |-> e.DEFAULT_MESSAGE_STREAM,
   TrackOpens |-> TRUE,
   TrackLinks |-> "HtmlAndText",
   TemplateId |-> a.templateId]

\* mutant: the alias is added next to the id whenever it is given
SendEmailWithTemplateDataBothRefs(a, e) ==
  LET emailData ==
        [From |-> OrElse(a.from, e.DEFAULT_SENDER_EMAIL),
         To |-> a.to,
         TemplateModel |-> a.templateModel,
         MessageStream |-> e.DEFAULT_MESSAGE_STREAM,
         TrackOpens |-> TRUE,
         TrackLinks |-> "HtmlAndText"]
      withId == IF IsTruthy(a.templateId)
                  THEN emailData @@ ("TemplateId" :> a.templateId) ELSE emailData
  IN IF IsTruthy(a.templateAlias)
       THEN withId @@ ("TemplateAlias" :> a.templateAlias) ELSE withId

\* emailData as it is when postmarkClient.sendEmailWithTemplate is called
SendEmailWithTemplateData(a, e) ==
  LET emailData ==
        [From |-> OrElse(a.from, e.DEFAULT_SENDER_EMAIL),
         To |-> a.to,
         TemplateModel |-> a.templateModel,
         MessageStream |-> e.DEFAULT_MESSAGE_STREAM,
         TrackOpens |-> TRUE,
         TrackLinks |-> "HtmlAndText"]
      withRef == IF IsTruthy(a.templateId)
                   THEN emailData @@ ("TemplateId" :> a.templateId)
                   ELSE emailData @@ ("TemplateAlias" :> a.templateAlias)
  IN IF Truthy(a.tag) THEN withRef @@ ("Tag" :> a.tag) ELSE withRef

SendEmailWithTemplateArgs ==
  [to : { Str(<<"to@example.com">>) },
   templateModel : { Str(<<"model">>) },
   templateId : { Undef, Num(0), Num(42) },
   templateAlias : OptionalArgs("welcome"),
   from : { Undef, Str(<<"other@example.com">>) },
   tag : { Undef, Str(<<"news">>) }]

\* the handler throws on a missing template reference, or runs to
\* await postmarkClient.sendEmailWithTemplate(emailData)
CallSendEmailWithTemplate(p, a) ==
  /\ inv[p].pc = "idle"
  /\ IF TemplateRefMissing(a)
       THEN /\ inv' = [inv EXCEPT ![p] =
                 Raise([Idle EXCEPT !.op = "sendEmailWithTemplate", !.args = a],
                       Error("Either templateId or templateAlias must be provided"))]
            /\ calls' = calls
       ELSE /\ Len(calls) < MaxCalls
            /\ calls' = Append(calls, [method |-> "sendEmailWithTemplate", args |-> a,
                                       data |-> SendEmailWithTemplateData(a, env)])
            /\ inv' = [inv EXCEPT ![p] =
                 [Idle EXCEPT !.op = "sendEmailWithTemplate", !.args = a,
                              !.pc = "provider"]]
  /\ UNCHANGED <<fs, mutCount, env, server>>

(***************************************************************************)
(* createTemplate and updateTemplate tool handlers                         *)
(***************************************************************************)
\* mutant: a template without any body is sent to the provider
BodyMissingNever(a) == FALSE

\* !htmlBody && !textBody
BodyMissing(a) == ~Truthy(a.htmlBody) /\ ~Truthy(a.textBody)

\* templateData as it is when postmarkClient.createTemplate is called
CreateTemplateData(a) ==
  LET templateData == [Name |-> a.name, Subject |-> a.subject]
      withHtml == IF Truthy(a.htmlBody)
                    THEN templateData @@ ("HtmlBody" :> a.htmlBody) ELSE templateData
      withText == IF Truthy(a.textBody)
                    THEN withHtml @@ ("TextBody" :> a.textBody) ELSE withHtml
  IN IF Truthy(a.alias) THEN withText @@ ("Alias" :> a.alias) ELSE withText

\* the template the provider answers a create or an edit with
TemplateResult(a) ==
  [TemplateId |-> Num(7),
   Name |-> IF a.name # Undef THEN a.name ELSE Str(<<"N">>),
   Subject |-> IF a.subject # Undef THEN a.subject ELSE Str(<<"S">>),
   Alias |-> a.alias,
   Active |-> TRUE]

TemplateText(title, result) ==
  [content |-> <<title, "Template ID: ", result.TemplateId, "Name: ", result.Name,
                 "Subject: ", result.Subject,
                 "Alias: ", OrElse(result.Alias, Str(<<"none">>)),
                 "Active: ", IF result.Active THEN "Yes" ELSE "No">>]

CreateTemplateArgs ==
  [name : { Str(<<"N">>) },
   subject : { Str(<<"S">>) },
   htmlBody : OptionalArgs("<p>T</p>"),
   textBody : OptionalArgs("T"),
   alias : OptionalArgs("welcome")]

\* the handler throws on a template without body, or runs to
\* await postmarkClient.createTemplate(templateData)
CallCreateTemplate(p, a) ==
  /\ inv[p].pc = "idle"
  /\ IF BodyMissing(a)
       THEN /\ inv' = [inv EXCEPT ![p] =
                 Raise([Idle EXCEPT !.op = "createTemplate", !.args = a],
                       Error("Either htmlBody or textBody must be provided"))]
            /\ calls' = calls
       ELSE /\ Len(calls) < MaxCalls
            /\ calls' = Append(calls, [method |-> "createTemplate", args |-> a,
                                       data |-> CreateTemplateData(a)])
            /\ inv' = [inv EXCEPT ![p] =
                 [Idle EXCEPT !.op = "createTemplate", !.args = a, !.pc = "provider"]]
  /\ UNCHANGED <<fs, mutCount, env, server>>

\* mutant: a field is copied only when it is truthy
UpdateDataTruthy(a) ==
  LET arg == [Name |-> a.name, Subject |-> a.subject, HtmlBody |-> a.htmlBody,
              TextBody |-> a.textBody, Alias |-> a.alias]
  IN [key \in { k \in DOMAIN arg : Truthy(arg[k]) } |-> arg[key]]

\* updateData: a key for every argument that is not undefined
UpdateData(a) ==
  LET arg == [Name |-> a.name, Subject |-> a.subject, HtmlBody |-> a.htmlBody,
              TextBody |-> a.textBody, Alias |-> a.alias]
  IN [key \in { k \in DOMAIN arg : arg[k] # Undef } |-> arg[key]]

UpdateTemplateArgs ==
  [templateIdOrAlias : { Str(<<"welcome">>) },
   name : { Undef, Str(<<"N2">>) },
   subject : { Undef, Str(<<>>) },
   htmlBody : { Undef, Str(<<"<p>T</p>">>) },
   textBody : { Undef, Str(<<>>) },
   alias : { Undef, Str(<<"welcome2">>) }]

\* the handler throws on an empty updateData, or runs to
\* await postmarkClient.editTemplate(templateIdOrAlias, updateData)
CallUpdateTemplate(p, a) ==
  /\ inv[p].pc = "idle"
  /\ IF DOMAIN UpdateData(a) = {}
       THEN /\ inv' = [inv EXCEPT ![p] =
                 Raise([Idle EXCEPT !.op = "updateTemplate", !.args = a],
                       Error("At least one field must be provided to update"))]
            /\ calls' = calls
       ELSE /\ Len(calls) < MaxCalls
            /\ calls' = Append(calls, [method |-> "editTemplate", args |-> a,
                                       id |-> a.templateIdOrAlias,
                                       data |-> UpdateData(a)])
            /\ inv' = [inv EXCEPT ![p] =
                 [Idle EXCEPT !.op = "updateTemplate", !.args = a, !.pc = "provider"]]
  /\ UNCHANGED <<fs, mutCount, env, server>>

(***************************************************************************)
(* listTemplates and deleteTemplate tool handlers                          *)
(***************************************************************************)
\* the handler runs to await postmarkClient.getTemplates()
CallListTemplates(p) ==
  /\ inv[p].pc = "idle"
  /\ Len(calls) < MaxCalls
  /\ calls' = Append(calls, [method |-> "getTemplates", args |-> NoArgs])
  /\ inv' = [inv EXCEPT ![p] =
       [Idle EXCEPT !.op = "listTemplates", !.pc = "provider"]]
  /\ UNCHANGED <<fs, mutCount, env, server>>

\* the handler runs to await postmarkClient.deleteTemplate(templateIdOrAlias)
CallDeleteTemplate(p, a) ==
  /\ inv[p].pc = "idle"
  /\ Len(calls) < MaxCalls
  /\ calls' = Append(calls, [method |-> "deleteTemplate", args |-> a,
                             id |-> a.templateIdOrAlias])
  /\ inv' = [inv EXCEPT ![p] =
       [Idle EXCEPT !.op = "deleteTemplate", !.args = a, !.pc = "provider"]]
  /\ UNCHANGED <<fs, mutCount, env, server>>

(***************************************************************************)
(* Number arithmetic of the delivery statistics: IEEE 754 binary64         *)
(***************************************************************************)
\* A positive Number is [m |-> bits, e |-> k]: the integer written by the
\* MantissaBits bits of m (most significant first, the first one 1) times 2^k.
MantissaBits == 53

RECURSIVE Pow2(_)
Pow2(k) == IF k = 0 THEN 1 ELSE 2 * Pow2(k - 1)

RECURSIVE PowMod2(_, _)
\* 2^k modulo den
PowMod2(k, den) ==
  IF k = 0 THEN 1 % den
  ELSE IF k % 2 = 0 THEN (PowMod2(k \div 2, den) * PowMod2(k \div 2, den)) % den
  ELSE (2 * PowMod2(k - 1, den)) % den

RECURSIVE BitsValue(_)
\* the integer written by a short sequence of bits
BitsValue(bits) ==
  IF bits = <<>> THEN 0
  ELSE 2 * BitsValue(SubSeq(bits, 1, Len(bits) - 1)) + bits[Len(bits)]

\* bits + 1
Increment(bits) ==
  IF \A i \in 1..Len(bits) : bits[i] = 1
    THEN <<1>> \o [i \in 1..Len(bits) |-> 0]
    ELSE LET last == CHOOSE i \in 1..Len(bits) :
                       bits[i] = 0 /\ \A j \in (i + 1)..Len(bits) : bits[j] = 1
         IN [i \in 1..Len(bits) |->
               IF i < last THEN bits[i] ELSE IF i = last THEN 1 ELSE 0]

\* round to nearest, ties to even: bits holds more than MantissaBits bits,
\* sticky tells that the exact value has further nonzero bits below them
RoundToNearestEven(bits, e, sticky) ==
  LET kept == SubSeq(bits, 1, MantissaBits)
      rest == SubSeq(bits, MantissaBits + 1, Len(bits))
      dropped == Len(bits) - MantissaBits
      half == rest[1] = 1
      below == sticky \/ \E i \in 2..Len(rest) : rest[i] = 1
      up == half /\ (below \/ kept[MantissaBits] = 1)
      m == IF up THEN Increment(kept) ELSE kept
  IN IF Len(m) > MantissaBits
       THEN [m |-> SubSeq(m, 1, MantissaBits), e |-> e + dropped + 1]
       ELSE [m |-> m, e |-> e + dropped]

RECURSIVE Log2Quotient(_, _)
\* the largest s with den * 2^s <= num, for num >= den
Log2Quotient(num, den) ==
  IF 2 * den > num THEN 0 ELSE 1 + Log2Quotient(num, 2 * den)

RECURSIVE Log2Inverse(_, _)
\* the smallest s with num * 2^s >= den, for num < den
Log2Inverse(num, den) ==
  IF num >= den THEN 0 ELSE 1 + Log2Inverse(2 * num, den)

\* a / b for integers a > 0, b > 0
Divide(a, b) ==
  LET up == IF a >= b THEN Log2Quotient(a, b) ELSE 0
      down == IF a >= b THEN 0 ELSE Log2Inverse(a, b)
      num == a * Pow2(down)
      den == b * Pow2(up)
      \* the remainder of (num - den) * 2^k by den
      Remainder(k) == ((num - den) * PowMod2(k, den)) % den
      \* the quotient is 1.b1 b2 ...: bit k behind the binary point
      bits == <<1>> \o [k \in 1..MantissaBits |->
                          IF 2 * Remainder(k - 1) >= den THEN 1 ELSE 0]
  IN RoundToNearestEven(bits, up - down - MantissaBits, Remainder(MantissaBits) # 0)

RECURSIVE TimesCarry(_, _, _)
\* bytes * k + carry for a small integer k, as bytes
TimesCarry(bytes, k, carry) ==
  IF bytes = <<>> THEN IF carry = 0 THEN <<>> ELSE <<carry>>
  ELSE LET v == bytes[Len(bytes)] * k + carry
       IN TimesCarry(SubSeq(bytes, 1, Len(bytes) - 1), k, v \div 256) \o <<v % 256>>

\* bits * k for a small integer k, as bits: the bits are taken byte by byte
\* (the first byte padded with zeros) and the product loses its leading zeros
TimesBits(bits, k) ==
  LET n == (Len(bits) + 7) \div 8
      padded == [i \in 1..(8 * n - Len(bits)) |-> 0] \o bits
      bytes == TimesCarry([b \in 1..n |-> BitsValue(SubSeq(padded, 8 * b - 7, 8 * b))],
                          k, 0)
      product == [i \in 1..(8 * Len(bytes)) |->
                    (bytes[(i - 1) \div 8 + 1] \div Pow2(7 - ((i - 1) % 8))) % 2]
      first == CHOOSE i \in 1..Len(product) :
                 product[i] = 1 /\ \A j \in 1..(i - 1) : product[j] = 0
  IN SubSeq(product, first, Len(product))

\* x * k for a Number x and a small integer k
Times(x, k) ==
  LET bits == TimesBits(x.m, k)
  IN IF Len(bits) = MantissaBits THEN [m |-> bits, e |-> x.e]
     ELSE RoundToNearestEven(bits, x.e, FALSE)

\* Number.prototype.toFixed(1): the integer n for which n / 10 - x is as close
\* to zero as possible, the larger one of two; returned as the tenths n
ToFixed1(x) ==
  LET bits == TimesBits(x.m, 10)
      whole == Len(bits) + x.e
      n == IF whole <= 0 THEN 0 ELSE BitsValue(SubSeq(bits, 1, whole))
      half == whole >= 0 /\ whole < Len(bits) /\ bits[whole + 1] = 1
  IN IF half THEN n + 1 ELSE n

\* ((part / total) * 100).toFixed(1), in tenths
RateTenths(part, total) ==
  IF part = 0 THEN 0 ELSE ToFixed1(Times(Divide(part, total), 100))

(***************************************************************************)
(* HTTP responses of the raw-HTTP tools                                    *)
(***************************************************************************)
Bool(b) == [t |-> "boolean", v |-> b]

\* a body that response.json() parses to value, and one it rejects
Json(value) == [json |-> TRUE, value |-> value]
NotJson == [json |-> FALSE]

Response(status, statusText, body) ==
  [status |-> status, statusText |-> statusText, body |-> body]

\* response.ok
Ok(response) == response.status >= 200 /\ response.status <= 299

\* new Error of a failed request: prefix, HTTP status and detail
HttpError(prefix, status, detail) ==
  [text |-> prefix, status |-> status, detail |-> detail]

\* the TypeError or SyntaxError of a failed fetch() or response.json()
FetchError(kind) == Msg(kind, "fetch", <<>>)

\* what fetch settles with: a 200 with one of the bodies or with a body that
\* is not JSON, no response at all (fetch rejected), or a non-2xx answer: with
\* a Message, with an empty Message, without Message, and not JSON
Responses(bodies) ==
  { Response(200, "OK", Json(d)) : d \in bodies }
    \cup { Response(200, "OK", NotJson), [failed |-> TRUE] }
    \cup { Response(401, "Unauthorized",
                     Json([ErrorCode |-> Num(10), Message |-> Str(<<"Bad token">>)])),
            Response(404, "Not Found", Json([ErrorCode |-> Num(0), Message |-> Str(<<>>)])),
            Response(422, "Unprocessable Entity", Json([ErrorCode |-> Num(402)])),
            Response(500, "Internal Server Error", NotJson) }

(***************************************************************************)
(* getDeliveryStats tool handler                                           *)
(***************************************************************************)
\* encodeURIComponent: letters, digits and - stay, & becomes %26
EncodeURIComponent(s) ==
  Str([i \in 1..Len(s.v) |-> IF s.v[i] = "&" THEN "%26" ELSE s.v[i]])

\* the request getDeliveryStats hands to fetch; its query holds fromdate,
\* todate and tag, each when truthy
StatsRequest(a, e) ==
  [url |-> "https://api.postmarkapp.com/stats/outbound",
   query |->
     (IF Truthy(a.fromDate)
        THEN <<[k |-> "fromdate", v |-> EncodeURIComponent(a.fromDate)]>> ELSE <<>>)
     \o (IF Truthy(a.toDate)
           THEN <<[k |-> "todate", v |-> EncodeURIComponent(a.toDate)]>> ELSE <<>>)
     \o (IF Truthy(a.tag)
           THEN <<[k |-> "tag", v |-> EncodeURIComponent(a.tag)]>> ELSE <<>>),
   method |-> "GET",
   headers |-> [Accept |-> "application/json",
                XPostmarkServerToken |-> e.POSTMARK_SERVER_TOKEN]]

\* data.Field || 0
OrZero(data, field) ==
  IF field \in DOMAIN data /\ IsTruthy(data[field]) THEN data[field].v ELSE 0

\* total > 0 ? ((part / total) * 100).toFixed(1) : "0.0", as the digits
\* before and behind the point
Rate(part, total) ==
  LET n == IF total > 0 THEN RateTenths(part, total) ELSE 0
  IN [whole |-> n \div 10, tenth |-> n % 10]

\* the text block getDeliveryStats returns
StatsText(a, data) ==
  LET sent == OrZero(data, "Sent")
      tracked == OrZero(data, "Tracked")
      uniqueOpens == OrZero(data, "UniqueOpens")
      totalTrackedLinks == OrZero(data, "TotalTrackedLinksSent")
      uniqueLinksClicked == OrZero(data, "UniqueLinksClicked")
  IN [title |-> "Email Statistics Summary",
      sent |-> sent,
      openRate |-> Rate(uniqueOpens, tracked),
      opens |-> <<uniqueOpens, tracked>>,
      clickRate |-> Rate(uniqueLinksClicked, totalTrackedLinks),
      clicks |-> <<uniqueLinksClicked, totalTrackedLinks>>,
      period |-> IF Truthy(a.fromDate) \/ Truthy(a.toDate)
                   THEN <<OrElse(a.fromDate, Str(<<"start">>)),
                          OrElse(a.toDate, Str(<<"now">>))>>
                   ELSE <<>>,
      tag |-> IF Truthy(a.tag) THEN <<a.tag>> ELSE <<>>]

Stats(sent, tracked, uniqueOpens, totalTrackedLinks, uniqueLinksClicked) ==
  [Sent |-> Num(sent), Tracked |-> Num(tracked), UniqueOpens |-> Num(uniqueOpens),
   TotalTrackedLinksSent |-> Num(totalTrackedLinks),
   UniqueLinksClicked |-> Num(uniqueLinksClicked)]

\* the statistics the provider answers with: those of the test, zero and
\* absent denominators, and quotients that round at the second decimal
StatsBodies ==
  { Stats(10, 8, 4, 6, 3),
    Stats(10, 0, 0, 0, 0),
    [Sent |-> Num(10)],
    Stats(20, 16, 1, 3, 1),
    Stats(100, 80, 23, 3, 2),
    Stats(100, 80, 41, 16, 3) }

StatsArgs ==
  [tag : { Undef, Str(<<"n", "&">>) },
   fromDate : { Undef, Str(<<"2025-05-01">>) },
   toDate : { Undef, Str(<<"2025-05-02">>) }]

\* the handler runs to await fetch(url, ...)
CallGetDeliveryStats(p, a) ==
  /\ inv[p].pc = "idle"
  /\ Len(calls) < MaxCalls
  /\ calls' = Append(calls, [method |-> "fetch", op |-> "getDeliveryStats", args |-> a,
                             request |-> StatsRequest(a, env)])
  /\ inv' = [inv EXCEPT ![p] =
       [Idle EXCEPT !.op = "getDeliveryStats", !.args = a, !.pc = "fetch"]]
  /\ UNCHANGED <<fs, mutCount, env, server>>

\* the handler after fetch settled
StatsSettled(r, response) ==
  IF "failed" \in DOMAIN response THEN Raise(r, FetchError("TypeError"))
  ELSE IF ~Ok(response)
    THEN Raise(r, HttpError("API request failed", response.status,
                            Str(<<response.statusText>>)))
  ELSE IF ~response.body.json THEN Raise(r, FetchError("SyntaxError"))
  ELSE Finish(r, StatsText(r.args, response.body.value))

(***************************************************************************)
(* simulateTemplatePush and executeTemplatePush tool handlers              *)
(***************************************************************************)
\* mutant: the push is sent without an account token
AccountTokenMissingNever(e) == FALSE

\* !process.env.POSTMARK_ACCOUNT_TOKEN
AccountTokenMissing(e) == ~Truthy(e.POSTMARK_ACCOUNT_TOKEN)

\* JSON.stringify of an object: the properties that are not undefined
JsonStringify(object) ==
  Json([k \in { key \in DOMAIN object : object[key].t # "undefined" } |-> object[k]])

\* mutant: executeTemplatePush asks for a simulation
PushRequestSimulated(a, e, performChanges) ==
  [url |-> "https://api.postmarkapp.com/templates/push",
   method |-> "PUT",
   headers |-> [Accept |-> "application/json", ContentType |-> "application/json",
                XPostmarkAccountToken |-> e.POSTMARK_ACCOUNT_TOKEN],
   body |-> JsonStringify([SourceServerID |-> a.sourceServerID,
                           DestinationServerID |-> a.destinationServerID,
                           PerformChanges |-> Bool(FALSE)])]

\* the request a template push hands to fetch
PushRequest(a, e, performChanges) ==
  [url |-> "https://api.postmarkapp.com/templates/push",
   method |-> "PUT",
   headers |-> [Accept |-> "application/json", ContentType |-> "application/json",
                XPostmarkAccountToken |-> e.POSTMARK_ACCOUNT_TOKEN],
   body |-> JsonStringify([SourceServerID |-> a.sourceServerID,
                           DestinationServerID |-> a.destinationServerID,
                           PerformChanges |-> Bool(performChanges)])]

\* mutant: the detail is always the status text
PushErrorDetailStatusText(response) == Str(<<response.statusText>>)

\* errorData.Message || response.statusText, errorData being {} for a body
\* that is not JSON
PushErrorDetail(response) ==
  LET errorData == IF response.body.json THEN response.body.value ELSE <<>>
  IN IF "Message" \in DOMAIN errorData /\ Truthy(errorData.Message)
       THEN errorData.Message ELSE Str(<<response.statusText>>)

\* templatesList: result.Templates.map(...)
TemplatesList(result) ==
  [i \in 1..Len(result.Templates) |->
     LET t == result.Templates[i] IN
     [name |-> t.Name, alias |-> OrElse(t.Alias, Str(<<"no alias">>)),
      action |-> t.Action, type |-> t.TemplateType,
      id |-> IF IsTruthy(t.TemplateId) THEN t.TemplateId ELSE Str(<<"N/A">>)]]

\* the text block simulateTemplatePush returns
SimulatePushText(a, result) ==
  [title |-> "Template Push Simulation Results",
   source |-> a.sourceServerID, destination |-> a.destinationServerID,
   totalLabel |-> "Total Templates Affected: ", total |-> result.TotalCount,
   listing |-> IF result.TotalCount > 0
                 THEN [intro |-> "Templates that would be affected:",
                       list |-> TemplatesList(result)]
                 ELSE [intro |-> "No templates would be affected.", list |-> <<>>],
   note |-> "Note: This was a simulation only. No changes were made."]

\* the text block executeTemplatePush returns
ExecutePushText(a, result) ==
  [title |-> "Template Push Execution Results",
   source |-> a.sourceServerID, destination |-> a.destinationServerID,
   totalLabel |-> "Total Templates Processed: ", total |-> result.TotalCount,
   listing |-> IF result.TotalCount > 0
                 THEN [intro |-> "Templates that were processed:",
                       list |-> TemplatesList(result)]
                 ELSE [intro |-> "No templates were processed.", list |-> <<>>],
   note |-> "Note: Changes have been applied to the destination server."]

PushedTemplate(name, alias, action, id) ==
  [Name |-> Str(<<name>>), Alias |-> alias, Action |-> action,
   TemplateType |-> "Standard", TemplateId |-> id]

\* the results the provider answers a push with
PushBodies ==
  { [TotalCount |-> 0, Templates |-> <<>>],
    [TotalCount |-> 1,
     Templates |-> <<PushedTemplate("Welcome Email", Str(<<"welcome">>), "Create", Undef)>>],
    [TotalCount |-> 2,
     Templates |-> <<PushedTemplate("Welcome Email", Str(<<"welcome">>), "Edit", Num(7)),
                     PushedTemplate("Receipt", Undef, "Create", Undef)>>] }

PushOps == {"simulateTemplatePush", "executeTemplatePush"}

PushArgs ==
  [sourceServerID : { Str(<<"s1">>), Str(<<"s2">>) },
   destinationServerID : { Str(<<"d">>) }]

\* the handler throws without an account token, or runs to await fetch(...)
CallTemplatePush(p, op, a) ==
  /\ inv[p].pc = "idle"
  /\ IF AccountTokenMissing(env)
       THEN /\ inv' = [inv EXCEPT ![p] =
                 Raise([Idle EXCEPT !.op = op, !.args = a],
                       Error("POSTMARK_ACCOUNT_TOKEN environment variable is required for template push operations"))]
            /\ calls' = calls
       ELSE /\ Len(calls) < MaxCalls
            /\ calls' = Append(calls, [method |-> "fetch", op |-> op, args |-> a,
                                       request |-> PushRequest(a, env, op = "executeTemplatePush")])
            /\ inv' = [inv EXCEPT ![p] =
                 [Idle EXCEPT !.op = op, !.args = a, !.pc = "fetch"]]
  /\ UNCHANGED <<fs, mutCount, env, server>>

\* mutant: a request that failed is issued once more
PushSettledRetrying(r, response) ==
  IF "failed" \in DOMAIN response \/ ~Ok(response) THEN r
  ELSE IF ~response.body.json THEN Raise(r, FetchError("SyntaxError"))
  ELSE Finish(r, IF r.op = "simulateTemplatePush"
                   THEN SimulatePushText(r.args, response.body.value)
                   ELSE ExecutePushText(r.args, response.body.value))

\* the handler after fetch settled
PushSettled(r, response) ==
  IF "failed" \in DOMAIN response THEN Raise(r, FetchError("TypeError"))
  ELSE IF ~Ok(response)
    THEN Raise(r, HttpError("Postmark API Error", response.status,
                            PushErrorDetail(response)))
  ELSE IF ~response.body.json THEN Raise(r, FetchError("SyntaxError"))
  ELSE Finish(r, IF r.op = "simulateTemplatePush"
                   THEN SimulatePushText(r.args, response.body.value)
                   ELSE ExecutePushText(r.args, response.body.value))

\* fetch settles with a response of the provider, or rejects, and the handler
\* runs to its end; the response stays with the invocation
FetchStep(p) ==
  /\ inv[p].pc = "fetch"
  /\ \E response \in Responses(IF inv[p].op = "getDeliveryStats"
                                  THEN StatsBodies ELSE PushBodies) :
       inv' = [inv EXCEPT ![p] =
         (IF inv[p].op = "getDeliveryStats" THEN StatsSettled(inv[p], response)
          ELSE PushSettled(inv[p], response)) @@ [response |-> response]]
  /\ UNCHANGED <<fs, mutCount, env, calls, server>>

\* the text each handler renders from the provider's answer
ProviderText(r) ==
  CASE r.op = "sendEmail" -> SendEmailText(r.args, "mid-1")
    [] r.op = "sendEmailWithTemplate" ->
         [content |-> <<"Template email sent successfully!", "MessageID: ", "mid-1",
                        "To: ", r.args.to, "Template: ",
                        IF IsTruthy(r.args.templateId) THEN r.args.templateId
                        ELSE r.args.templateAlias>>]
    [] r.op = "createTemplate" ->
         TemplateText("Template created successfully!", TemplateResult(r.args))
    [] r.op = "updateTemplate" ->
         TemplateText("Template updated successfully!", TemplateResult(r.args))
    [] r.op = "listTemplates" ->
         \* the provider answers with one template without alias and subject
         [content |-> <<"Found ", 1, " templates:",
                        <<[name |-> Str(<<"N">>), id |-> Num(7),
                           alias |-> OrElse(Undef, Str(<<"none">>)),
                           subject |-> OrElse(Str(<<>>), Str(<<"none">>))]>> >>]
    [] r.op = "deleteTemplate" ->
         \* the provider answers without Message
         [content |-> <<"Template deleted successfully!", "Template ID/Alias: ",
                        r.args.templateIdOrAlias,
                        "Status: ", OrElse(Undef, Str(<<"Deleted">>))>>]

\* the provider call settles: it resolves with the provider's answer or rejects
ProviderStep(p) ==
  /\ inv[p].pc = "provider"
  /\ \E resolved \in BOOLEAN :
       inv' = [inv EXCEPT ![p] =
         IF resolved THEN Finish(inv[p], ProviderText(inv[p]))
         ELSE Raise(inv[p], Msg("provider error", inv[p].op, <<>>))]
  /\ UNCHANGED <<fs, mutCount, env, calls, server>>

(***************************************************************************)
(* The filesystem-backed tool handlers                                     *)
(***************************************************************************)
\* { content: [{ type: "text", text }] }
Text(text) == [content |-> text]

\* the handler's own locals next to those of the accessor call it awaits
AsTool(tool, toolArgs, r) ==
  r @@ [tool |-> tool, toolArgs |-> toolArgs, envelope |-> NoResult]

\* mutant: the categories are read before ok is looked at
CategoriesTextUnchecked(categoriesRes) ==
  IF "categories" \notin DOMAIN categoriesRes
    THEN [thrown |-> TRUE, error |-> Msg("TypeError", "length", <<>>)]
  ELSE IF Len(categoriesRes.categories) = 0
    THEN Text(Msg("No template categories found.", "", <<>>))
  ELSE Text([found |-> Len(categoriesRes.categories),
             list |-> categoriesRes.categories])

\* the listTemplateCategories tool after its accessor call
CategoriesText(categoriesRes) ==
  IF ~categoriesRes.ok THEN Text(categoriesRes.message)
  ELSE IF Len(categoriesRes.categories) = 0
    THEN Text(Msg("No template categories found.", "", <<>>))
  ELSE Text([found |-> Len(categoriesRes.categories),
             list |-> categoriesRes.categories])

\* the listTemplatesInCategory tool after its accessor call
TemplatesText(a, templatesRes) ==
  IF ~templatesRes.ok THEN Text(templatesRes.message)
  ELSE IF Len(templatesRes.templates) = 0
    THEN Text(Msg("No templates found in category", a.categoryName, <<>>))
  ELSE Text([found |-> Len(templatesRes.templates), category |-> a.categoryName,
             list |-> templatesRes.templates])

\* mutant: every format is handed to the accessor
FormatInvalidNever(format) == FALSE

\* format !== "html" && format !== "text"
FormatInvalid(format) == format # Str(<<"html">>) /\ format # Str(<<"text">>)

\* the parameter default format = "html"
FormatParameter(format) == IF format = Undef THEN Str(<<"html">>) ELSE format

\* the getTemplateContent tool after its accessor call
ContentText(a, format, contentRes) ==
  IF ~contentRes.ok
    THEN Text([text |-> "not found", format |-> format,
               template |-> a.templateName, category |-> a.categoryName])
  ELSE Text([text |-> "Template content", format |-> format,
             template |-> a.templateName, category |-> a.categoryName,
             content |-> contentRes.content])

\* the getTemplateIdeas tool after its accessor call
IdeasText(a, ideasRes) ==
  IF ~ideasRes.ok THEN Text(ideasRes.message)
  ELSE IF Len(ideasRes.ideas) = 0
    THEN Text(Msg("No templates found matching the topic", a.topic, <<>>))
  ELSE Text([found |-> Len(ideasRes.ideas), topic |-> a.topic, list |-> ideasRes.ideas])

\* what the handler makes of the value its accessor call settled with; an
\* exception of the accessor leaves the handler as it is
ToolResult(tool, a, res) ==
  IF "thrown" \in DOMAIN res THEN res
  ELSE CASE tool = "listTemplateCategories" -> CategoriesText(res)
         [] tool = "listTemplatesInCategory" -> TemplatesText(a, res)
         [] tool = "getTemplateContent" -> ContentText(a, FormatParameter(a.format), res)
         [] tool = "getTemplateIdeas" -> IdeasText(a, res)

ToolListTemplateCategories(p) ==
  /\ inv[p].pc = "idle"
  /\ inv' = [inv EXCEPT ![p] =
       AsTool("listTemplateCategories", NoArgs,
              EnterListTemplateCategories(BasePath))]
  /\ UNCHANGED <<fs, mutCount, env, calls, server>>

ToolListTemplatesInCategory(p, cat) ==
  /\ inv[p].pc = "idle"
  /\ inv' = [inv EXCEPT ![p] =
       AsTool("listTemplatesInCategory", [categoryName |-> cat],
              EnterListTemplatesInCategory(BasePath, cat))]
  /\ UNCHANGED <<fs, mutCount, env, calls, server>>

\* the handler returns on a format it does not know, or runs to the await
\* of its getTemplateContent call
ToolGetTemplateContent(p, cat, tpl, format) ==
  /\ inv[p].pc = "idle"
  /\ LET a == [categoryName |-> cat, templateName |-> tpl, format |-> format]
         f == FormatParameter(format)
     IN inv' = [inv EXCEPT ![p] =
          IF FormatInvalid(f)
            THEN [AsTool("getTemplateContent", a, Idle)
                    EXCEPT !.pc = "returned", !.result = Text(Msg("Invalid format", f, <<>>))]
            ELSE AsTool("getTemplateContent", a,
                        EnterGetTemplateContent(BasePath, cat, tpl, f))]
  /\ UNCHANGED <<fs, mutCount, env, calls, server>>

ToolGetTemplateIdeas(p, topic) ==
  /\ inv[p].pc = "idle"
  /\ inv' = [inv EXCEPT ![p] =
       AsTool("getTemplateIdeas", [topic |-> topic],
              EnterGetTemplateIdeas(BasePath, topic))]
  /\ UNCHANGED <<fs, mutCount, env, calls, server>>

\* the awaited accessor call has settled: the handler runs to its return
HandlerReturn(p) ==
  /\ inv[p].pc = "done"
  /\ "tool" \in DOMAIN inv[p]
  /\ inv' = [inv EXCEPT ![p] =
       [inv[p] EXCEPT !.pc = "returned", !.envelope = inv[p].result,
                      !.result = ToolResult(inv[p].tool, inv[p].toolArgs, inv[p].result)]]
  /\ UNCHANGED <<fs, mutCount, env, calls, server>>

\* the caller has taken the handler's result
ToolComplete(p) ==
  /\ inv[p].pc = "returned"
  /\ inv' = [inv EXCEPT ![p] = Idle]
  /\ UNCHANGED <<fs, mutCount, env, calls, server>>

(***************************************************************************)
(* Resolution of the template base path: resolveTemplatesBasePath of the   *)
(* tool handlers and getTemplatesBasePath of the configuration module.     *)
(* A value of an environment variable is a sequence of characters.         *)
(***************************************************************************)
\* String.prototype.trim: white space is taken off both ends
Trim(s) ==
  LET solid == { i \in 1..Len(s) : s[i] \notin {" ", "\t"} } IN
  IF solid = {} THEN <<>>
  ELSE SubSeq(s, CHOOSE i \in solid : \A j \in solid : i <= j,
                 CHOOSE i \in solid : \A j \in solid : i >= j)

\* getEnv(name) with the default options: the value when it is set and not
\* blank, else the fallback undefined
GetEnv(e, name) ==
  IF Truthy(e[name]) /\ Len(Trim(e[name].v)) > 0 THEN e[name] ELSE Undef

\* join(process.cwd(), "postmark-templates", "templates-inlined")
DefaultTemplatesPath == Str(<<"cwd", "/", "postmark-templates", "/", "templates-inlined">>)

\* mutant: the fallback variable is looked at first
GetTemplatesBasePathFallbackFirst(e) ==
  LET override == OrElse(GetEnv(e, "TEMPLATES_BASE_PATH"),
                         GetEnv(e, "POSTMARK_TEMPLATES_PATH"))
  IN OrElse(override, DefaultTemplatesPath)

\* getTemplatesBasePath() of the configuration module
GetTemplatesBasePath(e) ==
  LET override == OrElse(GetEnv(e, "POSTMARK_TEMPLATES_PATH"),
                         GetEnv(e, "TEMPLATES_BASE_PATH"))
  IN OrElse(override, DefaultTemplatesPath)

\* resolveTemplatesBasePath() of registerTools
ResolveTemplatesBasePath(e) ==
  LET envPath == OrElse(e.POSTMARK_TEMPLATES_PATH, e.TEMPLATES_BASE_PATH)
  IN IF Truthy(envPath) THEN envPath ELSE DefaultTemplatesPath

\* one of the two functions is called and returns
CallResolveTemplatesBasePath(p) ==
  /\ inv[p].pc = "idle"
  /\ inv' = [inv EXCEPT ![p] =
       Finish([Idle EXCEPT !.op = "resolveTemplatesBasePath"],
              ResolveTemplatesBasePath(env))]
  /\ UNCHANGED <<fs, mutCount, env, calls, server>>

CallGetTemplatesBasePath(p) ==
  /\ inv[p].pc = "idle"
  /\ inv' = [inv EXCEPT ![p] =
       Finish([Idle EXCEPT !.op = "getTemplatesBasePath"], GetTemplatesBasePath(env))]
  /\ UNCHANGED <<fs, mutCount, env, calls, server>>

(***************************************************************************)
(* The process: initializeServices, main, handleShutdown and the fatal     *)
(* handlers of the main script.  server.tools is the list of the names     *)
(* server.tool was called with; shutdowns and fatals count the handlers    *)
(* that wait for server.disconnect() to settle.                            *)
(***************************************************************************)
\* mutant: deleteTemplate is left out and listTemplates is registered twice
RegisterToolsDuplicate(registry) ==
  registry \o <<"sendEmail", "sendEmailWithTemplate", "listTemplates", "getDeliveryStats",
                "listTemplateCategories", "listTemplatesInCategory", "getTemplateContent",
                "getTemplateIdeas", "createTemplate", "updateTemplate", "listTemplates",
                "simulateTemplatePush", "executeTemplatePush">>

\* registerTools(server, postmarkClient): its server.tool calls, in order
RegisterTools(registry) ==
  registry \o <<"sendEmail", "sendEmailWithTemplate", "listTemplates", "getDeliveryStats",
                "listTemplateCategories", "listTemplatesInCategory", "getTemplateContent",
                "getTemplateIdeas", "createTemplate", "updateTemplate", "deleteTemplate",
                "simulateTemplatePush", "executeTemplatePush">>

\* mutant: only the server token is looked at
MissingConfigTokenOnly(e) == ~Truthy(e.POSTMARK_SERVER_TOKEN)

\* !serverToken, !defaultSender or !defaultMessageStream
MissingConfig(e) ==
  \/ ~Truthy(e.POSTMARK_SERVER_TOKEN)
  \/ ~Truthy(e.DEFAULT_SENDER_EMAIL)
  \/ ~Truthy(e.DEFAULT_MESSAGE_STREAM)

\* the process after the main script was loaded: the fatal handlers are
\* installed, main() is about to be called; disconnect tells whether the
\* server object of the SDK has a disconnect function
Loaded(disconnect) ==
  [phase |-> "loaded", disconnect |-> disconnect, verified |-> FALSE, tools |-> <<>>,
   connected |-> FALSE, global |-> FALSE, signals |-> FALSE,
   shutdowns |-> 0, fatals |-> 0, exitCode |-> -1]

\* process.exit(code)
Exit(s, code) == [s EXCEPT !.phase = "exited", !.exitCode = code]

Exited == server.phase = "exited"

\* main() up to the first await of initializeServices: the configuration is
\* validated, and client.getServer() is called
Main ==
  /\ server.phase = "loaded"
  /\ server' = IF MissingConfig(env) THEN Exit(server, 1)
               ELSE [server EXCEPT !.phase = "verifying"]
  /\ UNCHANGED <<fs, mutCount, inv, env, calls>>

\* client.getServer() settled: initializeServices returns and main registers
\* the tools and calls server.connect(transport), or initializeServices
\* throws and the catch of main exits
GetServerSettled(s, resolved) ==
  IF resolved
    THEN [s EXCEPT !.verified = TRUE, !.tools = RegisterTools(@), !.phase = "connecting"]
    ELSE Exit(s, 1)

GetServerStep ==
  /\ server.phase = "verifying"
  /\ \E resolved \in BOOLEAN : server' = GetServerSettled(server, resolved)
  /\ UNCHANGED <<fs, mutCount, inv, env, calls>>

\* server.connect(transport) settled: the server is published and the signal
\* handlers are installed, or the catch of main exits
ConnectStep ==
  /\ server.phase = "connecting"
  /\ \E resolved \in BOOLEAN :
       server' = IF resolved
                   THEN [server EXCEPT !.connected = TRUE, !.global = TRUE,
                                       !.signals = TRUE, !.phase = "running"]
                   ELSE Exit(server, 1)
  /\ UNCHANGED <<fs, mutCount, inv, env, calls>>

\* handleShutdown(server) up to await server.disconnect(); calling what is
\* not a function raises a TypeError inside the try
HandleShutdown(s) ==
  IF s.disconnect THEN [s EXCEPT !.shutdowns = @ + 1] ELSE Exit(s, 1)

\* SIGTERM or SIGINT reaches the process that has installed its handlers
Signal(sig) ==
  /\ ~Exited /\ server.signals
  /\ server.shutdowns + server.fatals < MaxSignals
  /\ server' = HandleShutdown(server)
  /\ UNCHANGED <<fs, mutCount, inv, env, calls>>

\* mutant: a failed disconnect is not told from a successful one
ShutdownSettledAlwaysZero(s, resolved) ==
  Exit([s EXCEPT !.shutdowns = @ - 1,
                 !.connected = IF resolved THEN FALSE ELSE @,
                 !.global = IF resolved THEN FALSE ELSE @], 0)

\* handleShutdown after server.disconnect() settled
ShutdownSettled(s, resolved) ==
  IF resolved
    THEN Exit([s EXCEPT !.shutdowns = @ - 1, !.connected = FALSE, !.global = FALSE], 0)
    ELSE Exit([s EXCEPT !.shutdowns = @ - 1], 1)

ShutdownStep ==
  /\ ~Exited /\ server.shutdowns > 0
  /\ \E resolved \in BOOLEAN : server' = ShutdownSettled(server, resolved)
  /\ UNCHANGED <<fs, mutCount, inv, env, calls>>

\* the uncaughtException and unhandledRejection handlers up to
\* await globalThis.__mcpServer.disconnect(), or to their finally
FatalHandler(s) ==
  IF s.global /\ s.disconnect THEN [s EXCEPT !.fatals = @ + 1] ELSE Exit(s, 1)

Fatal(event) ==
  /\ ~Exited
  /\ server.shutdowns + server.fatals < MaxSignals
  /\ server' = FatalHandler(server)
  /\ UNCHANGED <<fs, mutCount, inv, env, calls>>

\* a fatal handler after its disconnect() settled: finally process.exit(1)
FatalStep ==
  /\ ~Exited /\ server.fatals > 0
  /\ \E resolved \in BOOLEAN :
       server' = Exit([server EXCEPT !.fatals = @ - 1,
                                     !.connected = IF resolved THEN FALSE ELSE @,
                                     !.global = IF resolved THEN FALSE ELSE @], 1)
  /\ UNCHANGED <<fs, mutCount, inv, env, calls>>

\* the process while it serves: started with a complete configuration, the
\* client verified, the tools registered and the transport connected
Serving ==
  [GetServerSettled(Loaded(TRUE), TRUE)
     EXCEPT !.connected = TRUE, !.global = TRUE, !.signals = TRUE, !.phase = "running"]

(***************************************************************************)
(* Specifications                                                          *)
(***************************************************************************)
DefaultEnv ==
  [DEFAULT_SENDER_EMAIL |-> Str(<<"from@example.com">>),
   DEFAULT_MESSAGE_STREAM |-> Str(<<"outbound">>),
   POSTMARK_SERVER_TOKEN |-> Str(<<"server">>),
   POSTMARK_ACCOUNT_TOKEN |-> Undef]

\* the accessor against every tree of Trees, with the external process
Init ==
  /\ fs \in Trees
  /\ mutCount = 0
  /\ inv = [p \in ProcIds |-> Idle]
  /\ env = DefaultEnv
  /\ calls = <<>>
  /\ server = Serving

Next ==
  \/ \E p \in ProcIds, base \in BaseArgs : CallListTemplateCategories(p, base)
  \/ \E p \in ProcIds, base \in BaseArgs, cat \in CategoryArgs :
       CallListTemplatesInCategory(p, base, cat)
  \/ \E p \in ProcIds, cat \in ContentCategoryArgs, tpl \in TemplateArgs,
          format \in FormatArgs :
       CallGetTemplateContent(p, BasePath, cat, tpl, format)
  \/ \E p \in ProcIds, base \in BaseArgs, topic \in TopicArgs :
       CallGetTemplateIdeas(p, base, topic)
  \/ \E p \in ProcIds : AccessStep(p)
  \/ \E p \in ProcIds : LstatStep(p)
  \/ \E p \in ProcIds : ReaddirStep(p)
  \/ \E p \in ProcIds : ReadFileStep(p)
  \/ \E p \in ProcIds : Complete(p)
  \/ RemoveBasePath
  \/ \E i \in 1..Len(fs.cats) : RemoveCategory(i)
  \/ \E i \in 1..Len(fs.cats) : \E j \in 1..Len(fs.cats[i].tpls) : RemoveTemplate(i, j)
  \/ \E i \in 1..Len(fs.cats) : \E j \in 1..Len(fs.cats[i].tpls) :
       \E field \in {"html", "text"} : RemoveContentFile(i, j, field)

Spec == Init /\ [][Next]_vars

\* the tool handlers against the provider, for every configuration of Envs
ToolInit ==
  /\ fs = [base |-> "absent", cats |-> <<>>]
  /\ mutCount = 0
  /\ inv = [p \in ProcIds |-> Idle]
  /\ env \in Envs
  /\ calls = <<>>
  /\ server = Serving

ToolNext ==
  \/ \E p \in ProcIds, a \in SendEmailArgs : CallSendEmail(p, a)
  \/ \E p \in ProcIds, a \in SendEmailWithTemplateArgs : CallSendEmailWithTemplate(p, a)
  \/ \E p \in ProcIds : ProviderStep(p)
  \/ \E p \in ProcIds : Complete(p)

ToolSpec == ToolInit /\ [][ToolNext]_vars

\* the template handlers against the provider
TemplateNext ==
  \/ \E p \in ProcIds, a \in CreateTemplateArgs : CallCreateTemplate(p, a)
  \/ \E p \in ProcIds, a \in UpdateTemplateArgs : CallUpdateTemplate(p, a)
  \/ \E p \in ProcIds : ProviderStep(p)
  \/ \E p \in ProcIds : Complete(p)

TemplateSpec == ToolInit /\ [][TemplateNext]_vars

\* the raw-HTTP tool handlers against the provider's HTTP interface
HttpNext ==
  \/ \E p \in ProcIds, a \in StatsArgs : CallGetDeliveryStats(p, a)
  \/ \E p \in ProcIds, a \in PushArgs : CallTemplatePush(p, "simulateTemplatePush", a)
  \/ \E p \in ProcIds, a \in PushArgs : CallTemplatePush(p, "executeTemplatePush", a)
  \/ \E p \in ProcIds : FetchStep(p)
  \/ \E p \in ProcIds : Complete(p)

HttpSpec == ToolInit /\ [][HttpNext]_vars

\* the filesystem-backed tool handlers on every tree of Trees with at most one
\* category, with the external process
FsToolInit ==
  /\ fs \in { t \in Trees : Len(t.cats) <= 1 }
  /\ mutCount = 0
  /\ inv = [p \in ProcIds |-> Idle]
  /\ env = DefaultEnv
  /\ calls = <<>>
  /\ server = Serving

FsToolNext ==
  \/ \E p \in ProcIds : ToolListTemplateCategories(p)
  \/ \E p \in ProcIds, cat \in ContentCategoryArgs : ToolListTemplatesInCategory(p, cat)
  \/ \E p \in ProcIds, cat \in ContentCategoryArgs, tpl \in TemplateArgs \ { Undef },
          format \in FormatArgs :
       ToolGetTemplateContent(p, cat, tpl, format)
  \/ \E p \in ProcIds, topic \in TopicArgs \ { Undef } : ToolGetTemplateIdeas(p, topic)
  \/ \E p \in ProcIds : AccessStep(p)
  \/ \E p \in ProcIds : LstatStep(p)
  \/ \E p \in ProcIds : ReaddirStep(p)
  \/ \E p \in ProcIds : ReadFileStep(p)
  \/ \E p \in ProcIds : HandlerReturn(p)
  \/ \E p \in ProcIds : ToolComplete(p)
  \/ RemoveBasePath
  \/ \E i \in 1..Len(fs.cats) : RemoveCategory(i)
  \/ \E i \in 1..Len(fs.cats) : \E j \in 1..Len(fs.cats[i].tpls) : RemoveTemplate(i, j)
  \/ \E i \in 1..Len(fs.cats) : \E j \in 1..Len(fs.cats[i].tpls) :
       \E field \in {"html", "text"} : RemoveContentFile(i, j, field)

FsToolSpec == FsToolInit /\ [][FsToolNext]_vars

\* the two override variables: absent, empty, blank, a path, and a path
\* with white space in front
PathValues ==
  { Undef, Str(<<>>), Str(<<" ">>), Str(<<"/", "a">>), Str(<<"/", "b">>),
    Str(<<" ", "/", "c">>) }

\* the two resolutions of the base path under every setting of the two
\* override variables
PathInit ==
  /\ fs = [base |-> "absent", cats |-> <<>>]
  /\ mutCount = 0
  /\ inv = [p \in ProcIds |-> Idle]
  /\ env \in { DefaultEnv @@ [POSTMARK_TEMPLATES_PATH |-> x, TEMPLATES_BASE_PATH |-> y] :
                x \in PathValues, y \in PathValues }
  /\ calls = <<>>
  /\ server = Serving

PathNext ==
  \/ \E p \in ProcIds : CallResolveTemplatesBasePath(p)
  \/ \E p \in ProcIds : CallGetTemplatesBasePath(p)
  \/ \E p \in ProcIds : Complete(p)

PathSpec == PathInit /\ [][PathNext]_vars

\* every setting of the three required variables: absent, empty or given
ServerEnvs ==
  [POSTMARK_SERVER_TOKEN : { Undef, Str(<<>>), Str(<<"server">>) },
   DEFAULT_SENDER_EMAIL : { Undef, Str(<<>>), Str(<<"from@example.com">>) },
   DEFAULT_MESSAGE_STREAM : { Undef, Str(<<>>), Str(<<"outbound">>) },
   POSTMARK_ACCOUNT_TOKEN : { Str(<<"acct">>) }]

\* the whole process from the moment the main script is loaded, over a tree
\* of one category, with one call of each of the thirteen tools
ServerInit ==
  /\ fs = [base |-> "dir",
           cats |-> <<Cat(CatName1, "dir",
                          <<Tpl(<<"a", "b">>, "dir", FileNode(HtmlBytes), FileNode(TextBytes)),
                            Tpl(<<"A", "B">>, "dir", NoNode, NoNode)>>)>>]
  /\ mutCount = 0
  /\ inv = [p \in ProcIds |-> Idle]
  /\ env \in ServerEnvs
  /\ calls = <<>>
  /\ server \in { Loaded(disconnect) : disconnect \in BOOLEAN }

\* a request for the tool reaches its handler: the transport is connected
\* and the name is registered
Dispatch(name) ==
  /\ ~Exited /\ server.connected
  /\ \E i \in 1..Len(server.tools) : server.tools[i] = name

ServerNext ==
  \/ Main
  \/ GetServerStep
  \/ ConnectStep
  \/ \E sig \in {"SIGTERM", "SIGINT"} : Signal(sig)
  \/ ShutdownStep
  \/ \E event \in {"uncaughtException", "unhandledRejection"} : Fatal(event)
  \/ FatalStep
  \/ \E p \in ProcIds :
       \E a \in { x \in SendEmailArgs :
                    x.htmlBody = Undef /\ x.from = Undef /\ x.tag = Undef } :
         Dispatch("sendEmail") /\ CallSendEmail(p, a)
  \/ \E p \in ProcIds :
       \E a \in { x \in SendEmailWithTemplateArgs :
                    /\ x.templateId = Undef /\ x.templateAlias # Str(<<>>)
                    /\ x.from = Undef /\ x.tag = Undef } :
         Dispatch("sendEmailWithTemplate") /\ CallSendEmailWithTemplate(p, a)
  \/ \E p \in ProcIds : Dispatch("listTemplates") /\ CallListTemplates(p)
  \/ \E p \in ProcIds :
       \E a \in { x \in StatsArgs : x.tag = Undef /\ x.fromDate = Undef /\ x.toDate = Undef } :
         Dispatch("getDeliveryStats") /\ CallGetDeliveryStats(p, a)
  \/ \E p \in ProcIds : Dispatch("listTemplateCategories") /\ ToolListTemplateCategories(p)
  \/ \E p \in ProcIds :
       Dispatch("listTemplatesInCategory") /\ ToolListTemplatesInCategory(p, Str(CatName1))
  \/ \E p \in ProcIds, format \in { Str(<<"text">>), Str(<<"xml">>) } :
       /\ Dispatch("getTemplateContent")
       /\ ToolGetTemplateContent(p, Str(CatName1), Str(<<"a", "b">>), format)
  \/ \E p \in ProcIds : Dispatch("getTemplateIdeas") /\ ToolGetTemplateIdeas(p, Str(<<"a">>))
  \/ \E p \in ProcIds :
       \E a \in { x \in CreateTemplateArgs :
                    x.htmlBody = Undef /\ x.textBody # Str(<<>>) /\ x.alias = Undef } :
         Dispatch("createTemplate") /\ CallCreateTemplate(p, a)
  \/ \E p \in ProcIds :
       \E a \in { x \in UpdateTemplateArgs :
                    /\ x.subject = Undef /\ x.htmlBody = Undef
                    /\ x.textBody = Undef /\ x.alias = Undef } :
         Dispatch("updateTemplate") /\ CallUpdateTemplate(p, a)
  \/ \E p \in ProcIds :
       /\ Dispatch("deleteTemplate")
       /\ CallDeleteTemplate(p, [templateIdOrAlias |-> Str(<<"welcome">>)])
  \/ \E p \in ProcIds, a \in { x \in PushArgs : x.sourceServerID = Str(<<"s1">>) } :
       Dispatch("simulateTemplatePush") /\ CallTemplatePush(p, "simulateTemplatePush", a)
  \/ \E p \in ProcIds, a \in { x \in PushArgs : x.sourceServerID = Str(<<"s1">>) } :
       Dispatch("executeTemplatePush") /\ CallTemplatePush(p, "executeTemplatePush", a)
  \/ \E p \in ProcIds : ~Exited /\ ProviderStep(p)
  \/ \E p \in ProcIds : ~Exited /\ FetchStep(p)
  \/ \E p \in ProcIds : ~Exited /\ AccessStep(p)
  \/ \E p \in ProcIds : ~Exited /\ LstatStep(p)
  \/ \E p \in ProcIds : ~Exited /\ ReaddirStep(p)
  \/ \E p \in ProcIds : ~Exited /\ ReadFileStep(p)
  \/ \E p \in ProcIds : ~Exited /\ HandlerReturn(p)
  \/ \E p \in ProcIds : ~Exited /\ ToolComplete(p)
  \/ \E p \in ProcIds : ~Exited /\ "tool" \notin DOMAIN inv[p] /\ Complete(p)

ServerSpec == ServerInit /\ [][ServerNext]_vars

\* main() runs once the script is loaded, and a disconnect() that was called
\* settles
FairServerSpec ==
  ServerSpec /\ WF_vars(Main) /\ WF_vars(ShutdownStep) /\ WF_vars(FatalStep)

\* the invocations the running server has in flight at once: the event loop
\* runs one handler at a time between two awaits, in any order
Slots == {1, 2}

\* two tool invocations at once over a tree of two categories that no one
\* changes, in a process that is serving
ConcurrentInit ==
  /\ fs = [base |-> "dir",
           cats |-> <<Cat(CatName1, "dir",
                          <<Tpl(<<"a", "b">>, "dir", FileNode(HtmlBytes), FileNode(TextBytes)),
                            Tpl(<<"A", "B">>, "dir", NoNode, NoNode)>>),
                      Cat(CatName2, "dir",
                          <<Tpl(<<"a">>, "dir", FileNode(HtmlBytes), NoNode)>>)>>]
  /\ mutCount = 0
  /\ inv = [p \in Slots |-> Idle]
  /\ env = [DefaultEnv EXCEPT !.POSTMARK_ACCOUNT_TOKEN = Str(<<"acct">>)]
  /\ calls = <<>>
  /\ server = Serving

ConcurrentNext ==
  \/ \E p \in Slots : ToolListTemplateCategories(p)
  \/ \E p \in Slots, cat \in {CatName1, CatName2} : ToolListTemplatesInCategory(p, Str(cat))
  \/ \E p \in Slots, format \in { Str(<<"html">>), Str(<<"text">>) } :
       ToolGetTemplateContent(p, Str(CatName2), Str(<<"a">>), format)
  \/ \E p \in Slots : ToolGetTemplateIdeas(p, Str(<<"a">>))
  \/ \E p \in Slots :
       \E a \in { x \in StatsArgs : x.tag = Undef /\ x.fromDate = Undef /\ x.toDate = Undef } :
         CallGetDeliveryStats(p, a)
  \/ \E p \in Slots :
       \E a \in { x \in SendEmailArgs :
                    x.htmlBody = Undef /\ x.from = Undef /\ x.tag = Undef } :
         CallSendEmail(p, a)
  \/ \E p \in Slots : ProviderStep(p)
  \/ \E p \in Slots : FetchStep(p)
  \/ \E p \in Slots : AccessStep(p)
  \/ \E p \in Slots : LstatStep(p)
  \/ \E p \in Slots : ReaddirStep(p)
  \/ \E p \in Slots : ReadFileStep(p)
  \/ \E p \in Slots : HandlerReturn(p)
  \/ \E p \in Slots : ToolComplete(p)
  \/ \E p \in Slots : "tool" \notin DOMAIN inv[p] /\ Complete(p)

ConcurrentSpec == ConcurrentInit /\ [][ConcurrentNext]_vars

(***************************************************************************)
(* Properties of the template store accessor                               *)
(***************************************************************************)
AccessorOps == {"listTemplateCategories", "listTemplatesInCategory",
                "getTemplateContent", "getTemplateIdeas"}
ListOps == {"listTemplateCategories", "listTemplatesInCategory"}
ErrorCodes == {"NOT_FOUND", "NOT_DIR", "IO_ERROR", "UNEXPECTED_ERROR"}

Done(r) == r.pc = "done"
\* the invocation saw one unchanging tree and no device error
Static(r) == ~r.mutated /\ ~r.faulted
\* every argument of the invocation is a string
StringArgs(r) == \A k \in DOMAIN r.args : k = "format" \/ IsString(r.args[k])

PayloadKey(op) ==
  CASE op = "listTemplateCategories" -> "categories"
    [] op = "listTemplatesInCategory" -> "templates"
    [] op = "getTemplateContent" -> "content"
    [] op = "getTemplateIdeas" -> "ideas"

IsFailure(v) ==
  /\ DOMAIN v = {"ok", "code", "message"}
  /\ v.ok = FALSE
  /\ v.code \in ErrorCodes
  /\ DOMAIN v.message = {"text", "arg", "path"}

IsSuccess(op, v) ==
  /\ DOMAIN v = {"ok", PayloadKey(op)}
  /\ v.ok = TRUE

Failed(r, code) == IsFailure(r.result) /\ r.result.code = code

Range(seq) == { seq[i] : i \in 1..Len(seq) }

\* C1: every accessor operation, for every argument and every tree, also
\* one changed between its steps, ends by returning a result envelope and
\* never throws: a failure has ok=false, a code of the fixed set and a
\* message; a success has ok=true and exactly its one payload key.
C1_AlwaysEnvelope ==
  \A p \in ProcIds :
    (Done(inv[p]) /\ inv[p].op \in AccessorOps) =>
      \/ IsFailure(inv[p].result)
      \/ IsSuccess(inv[p].op, inv[p].result)

\* a path that lstat no longer finds, because the external process removed
\* it after the access probe, still ends in an envelope
C1_Witness ==
  \E p \in ProcIds :
    /\ Done(inv[p]) /\ inv[p].op = "listTemplatesInCategory"
    /\ inv[p].mutated /\ ~inv[p].faulted
    /\ Failed(inv[p], "IO_ERROR")

\* the path a list operation is about, from its arguments
ListTarget(r) ==
  IF r.op = "listTemplateCategories" \/ r.args.categoryName.v = <<>>
    THEN <<>> ELSE <<r.args.categoryName.v>>

Subdirectories(tree, path) ==
  IF Len(path) = 0
    THEN { c.name : c \in { x \in Range(tree.cats) : x.kind \in {"dir", "noperm"} } }
    ELSE { t.name : t \in { x \in Range(tree.cats[IndexOf(tree.cats, path[1])].tpls) :
                            x.kind \in {"dir", "noperm"} } }

\* C3: on a readable directory a list operation returns ok=true with exactly
\* the names of the immediate children that are directories, each once: no
\* regular file and no grandchild name.
C3_ExactlySubdirectories ==
  \A p \in ProcIds :
    LET r == inv[p] IN
    (Done(r) /\ r.op \in ListOps /\ StringArgs(r) /\ Static(r)
       /\ NodeAt(fs, ListTarget(r)).kind = "dir") =>
      /\ IsSuccess(r.op, r.result)
      /\ LET names == r.result[PayloadKey(r.op)] IN
         /\ Range(names) = Subdirectories(fs, ListTarget(r))
         /\ Len(names) = Cardinality(Range(names))

\* a category holding a regular file next to a template directory
C3_Witness ==
  \E p \in ProcIds :
    LET r == inv[p] IN
    /\ Done(r) /\ r.op = "listTemplatesInCategory" /\ Static(r) /\ StringArgs(r)
    /\ IsSuccess(r.op, r.result)
    /\ r.result.templates = << <<"B", "a">> >>
    /\ Len(Dirents(fs, ListTarget(r))) = 2

\* C4: getTemplateContent reads content.html for 'html' and content.txt for
\* 'text': where that file exists and is readable the result is ok with the
\* file's bytes decoded as UTF-8, and where it is missing it is NOT_FOUND.
C4_ContentOfFormat ==
  \A p \in ProcIds :
    LET r == inv[p] IN
    (Done(r) /\ r.op = "getTemplateContent" /\ StringArgs(r) /\ Static(r)
       /\ r.args.format \in {Str(<<"html">>), Str(<<"text">>)}) =>
      LET file == IF r.args.format = Str(<<"html">>) THEN HtmlFile ELSE TextFile
          node == NodeAt(fs, <<r.args.categoryName.v, r.args.templateName.v, file>>)
      IN
      /\ node.kind = "file" => r.result = OkContent(Utf8Decode(node.bytes))
      /\ node.kind = "absent" => Failed(r, "NOT_FOUND")

C4_Witness ==
  \E p \in ProcIds :
    LET r == inv[p] IN
    /\ Done(r) /\ r.op = "getTemplateContent" /\ Static(r)
    /\ r.args.format = Str(<<"text">>)
    /\ r.args.templateName = Str(<<"a", "b">>)
    /\ r.result = OkContent(<<87>>)

\* the template directories of category c that hold neither content file
EmptyTemplates(c) ==
  { t \in Range(c.tpls) :
      t.kind = "dir" /\ t.html.kind = "absent" /\ t.text.kind = "absent" }

\* C5: a template directory with neither content.html nor content.txt is
\* still listed by listTemplatesInCategory and found by getTemplateIdeas,
\* while getTemplateContent for it fails with NOT_FOUND in both formats.
C5_EmptyTemplate ==
  \A p \in ProcIds :
    LET r == inv[p] IN
    (Done(r) /\ StringArgs(r) /\ Static(r) /\ fs.base = "dir") =>
      \A i \in 1..Len(fs.cats) :
        LET c == fs.cats[i] IN
        c.kind = "dir" =>
          \A t \in EmptyTemplates(c) :
            /\ (r.op = "listTemplatesInCategory" /\ r.args.categoryName = Str(c.name))
                 => (r.result.ok /\ t.name \in Range(r.result.templates))
            /\ (r.op = "getTemplateIdeas" /\ r.args.topic = Str(<<>>))
                 => (r.result.ok
                     /\ [category |-> c.name, template |-> t.name]
                          \in Range(r.result.ideas))
            /\ (r.op = "getTemplateContent" /\ r.args.categoryName = Str(c.name)
                  /\ r.args.templateName = Str(t.name))
                 => Failed(r, "NOT_FOUND")

C5_Witness ==
  \E p \in ProcIds :
    LET r == inv[p] IN
    /\ Done(r) /\ r.op = "listTemplatesInCategory" /\ Static(r) /\ StringArgs(r)
    /\ fs.base = "dir" /\ Len(fs.cats) >= 1 /\ fs.cats[1].kind = "dir"
    /\ r.args.categoryName = Str(fs.cats[1].name)
    /\ EmptyTemplates(fs.cats[1]) # {}
    /\ r.result.ok
    /\ \A t \in EmptyTemplates(fs.cats[1]) : t.name \in Range(r.result.templates)

(***************************************************************************)
(* Properties of getTemplateIdeas                                          *)
(***************************************************************************)
RECURSIVE Flatten(_)
Flatten(seqs) == IF seqs = <<>> THEN <<>> ELSE Head(seqs) \o Flatten(Tail(seqs))

\* the (category, template) pairs of the tree whose lower-cased template name
\* contains the lower-cased topic, categories in listing order and the
\* templates of a category in listing order
ExpectedIdeas(tree, topic) ==
  LET categories == SelectSeq(tree.cats, LAMBDA c : c.kind = "dir")
      OfCategory(c) ==
        LET hits == SelectSeq(c.tpls,
                      LAMBDA t : t.kind = "dir"
                                 /\ Includes(ToLowerCase(t.name), ToLowerCase(topic)))
        IN [j \in 1..Len(hits) |-> [category |-> c.name, template |-> hits[j].name]]
  IN Flatten([i \in 1..Len(categories) |-> OfCategory(categories[i])])

\* C6: on a static tree whose base path and categories are readable
\* directories getTemplateIdeas returns ok with exactly the matching pairs,
\* in category listing order and template listing order; the empty topic
\* gives every pair present.
C6_IdeasInListingOrder ==
  \A p \in ProcIds :
    LET r == inv[p] IN
    (Done(r) /\ r.op = "getTemplateIdeas" /\ StringArgs(r) /\ Static(r)
       /\ fs.base = "dir" /\ \A i \in 1..Len(fs.cats) : fs.cats[i].kind # "noperm") =>
      /\ r.result = OkIdeas(ExpectedIdeas(fs, r.args.topic.v))
      /\ r.args.topic.v = <<>> =>
           Range(r.result.ideas) =
             { [category |-> c.name, template |-> t.name] :
                 <<c, t>> \in { ct \in Range(fs.cats) \X UNION { Range(x.tpls) : x \in Range(fs.cats) } :
                                  ct[1].kind = "dir" /\ ct[2].kind = "dir"
                                  /\ ct[2] \in Range(ct[1].tpls) } }

\* two categories, each contributing a match
C6_Witness ==
  \E p \in ProcIds :
    LET r == inv[p] IN
    /\ Done(r) /\ r.op = "getTemplateIdeas" /\ StringArgs(r) /\ Static(r)
    /\ r.args.topic = Str(<<"a">>)
    /\ r.result.ok /\ Len(r.result.ideas) >= 3
    /\ r.result.ideas[1].category = CatName1
    /\ r.result.ideas[Len(r.result.ideas)].category = CatName2

\* two letters that differ at most in case
SameLetter(x, y) ==
  \/ x = y
  \/ {x, y} = {"a", "A"}
  \/ {x, y} = {"b", "B"}
  \/ {x, y} \subseteq GreekLetters

\* the strings that differ from s at most in the case of their letters
CaseVariants(s) ==
  { v \in [1..Len(s) -> Letters \cup GreekLetters] : \A i \in 1..Len(s) : SameLetter(v[i], s[i]) }

\* C7: getTemplateIdeas is case-insensitive in the topic and in the template
\* names: a template is among the ideas exactly when some re-casing of its
\* name contains some re-casing of the topic, so topics that differ only in
\* letter case yield the same idea set.
C7_CaseInsensitive ==
  \A p \in ProcIds :
    LET r == inv[p] IN
    (Done(r) /\ r.op = "getTemplateIdeas" /\ StringArgs(r) /\ Static(r)
       /\ fs.base = "dir") =>
      /\ r.result.ok
      /\ \A i \in 1..Len(fs.cats) :
           fs.cats[i].kind = "dir" =>
             \A j \in 1..Len(fs.cats[i].tpls) :
               LET t == fs.cats[i].tpls[j] IN
               t.kind = "dir" =>
                 ( [category |-> fs.cats[i].name, template |-> t.name]
                     \in Range(r.result.ideas)
                   <=> \E n \in CaseVariants(t.name), q \in CaseVariants(r.args.topic.v) :
                         Includes(n, q) )

\* C8: when the enumeration of the categories fails inside getTemplateIdeas
\* the operation returns a failure envelope with the code and the message of
\* that listTemplateCategories failure, and lists no category.
C8_CategoriesFailurePropagates ==
  \A p \in ProcIds :
    LET r == inv[p] IN
    (Done(r) /\ r.op = "getTemplateIdeas" /\ IsString(r.args.topic)) =>
      /\ r.categoriesRes # NoResult
      /\ ~r.categoriesRes.ok =>
           /\ IsFailure(r.result)
           /\ r.result.code = r.categoriesRes.code
           /\ r.result.message = r.categoriesRes.message
           /\ r.cats = <<>> /\ r.idx = 0 /\ r.fn = "categories"
      /\ (~r.mutated /\ (fs.base \in {"absent", "noperm"} \/ ~IsString(r.args.base))) =>
           r.result = Fail("NOT_FOUND", Msg("Directory not found at path: ", "", <<>>))
      /\ (Static(r) /\ IsString(r.args.base) /\ fs.base \in {"file", "link"}) =>
           r.result = Fail("NOT_DIR", Msg("Path is not a directory: ", "", <<>>))
      /\ (r.faulted /\ r.cats = <<>>) => Failed(r, "IO_ERROR")

C8_Witness ==
  \E p \in ProcIds :
    LET r == inv[p] IN
    /\ Done(r) /\ r.op = "getTemplateIdeas" /\ IsString(r.args.topic)
    /\ fs.base = "file" /\ Static(r)
    /\ ~r.categoriesRes.ok
    /\ Failed(r, "NOT_DIR")

\* C9: inside getTemplateIdeas a category whose template listing fails
\* contributes no idea and does not abort the search: the result is still ok
\* and holds every matching template of every category that listed.
C9_FailedCategorySkipped ==
  \A p \in ProcIds :
    LET r == inv[p] IN
    (Done(r) /\ r.op = "getTemplateIdeas" /\ r.cats # <<>>) =>
      /\ IsSuccess(r.op, r.result)
      /\ \A i \in Range(r.result.ideas) : i.category \notin Range(r.failed)
      /\ ~r.mutated =>
           \A i \in 1..Len(fs.cats) :
             (fs.cats[i].name \in Range(r.cats) \ Range(r.failed)) =>
               \A j \in 1..Len(fs.cats[i].tpls) :
                 LET t == fs.cats[i].tpls[j] IN
                 (t.kind = "dir" /\ Includes(ToLowerCase(t.name), r.topicLower)) =>
                   [category |-> fs.cats[i].name, template |-> t.name]
                     \in Range(r.result.ideas)

\* the first category cannot be listed, the second one contributes
C9_Witness ==
  \E p \in ProcIds :
    LET r == inv[p] IN
    /\ Done(r) /\ r.op = "getTemplateIdeas" /\ Static(r)
    /\ Len(r.cats) = 2 /\ r.failed = <<CatName1>>
    /\ r.result.ok /\ Len(r.result.ideas) >= 1

(***************************************************************************)
(* Properties of the sendEmail tool                                        *)
(***************************************************************************)
\* C10: the payload sendEmail hands to the provider always carries the
\* configured message stream, TrackOpens = true and TrackLinks =
\* "HtmlAndText", whatever the input; without from and tag its From is the
\* configured default sender (and it carries no Tag).
C10_SendEmailDefaults ==
  \A i \in 1..Len(calls) :
    LET c == calls[i] IN
    c.method = "sendEmail" =>
      /\ c.data.MessageStream = env.DEFAULT_MESSAGE_STREAM
      /\ c.data.TrackOpens = TRUE
      /\ c.data.TrackLinks = "HtmlAndText"
      /\ c.data.To = c.args.to /\ c.data.Subject = c.args.subject
      /\ c.data.TextBody = c.args.textBody
      /\ (c.args.from = Undef /\ c.args.tag = Undef) =>
           /\ c.data.From = env.DEFAULT_SENDER_EMAIL
           /\ "Tag" \notin DOMAIN c.data

\* a call without from and tag under a configuration other than the default one
C10_Witness ==
  \E i \in 1..Len(calls) :
    /\ calls[i].method = "sendEmail"
    /\ calls[i].args.from = Undef /\ calls[i].args.tag = Undef
    /\ calls[i].args.htmlBody = Str(<<"<p>T</p>">>)
    /\ env.DEFAULT_MESSAGE_STREAM = Str(<<"broadcast">>)
    /\ calls[i].data.From = Str(<<"noreply@example.com">>)

(***************************************************************************)
(* Properties of the provider-backed tool handlers                         *)
(***************************************************************************)
\* the argument was passed at all
Supplied(a) == a.t # "undefined"

\* the argument was passed and is not the empty string or zero
NonEmpty(a) ==
  CASE a.t = "undefined" -> FALSE
    [] a.t = "string" -> a.v # <<>>
    [] a.t = "number" -> a.v # 0

\* the invocation ended with new Error(text) reaching the caller
ThrewError(r, text) ==
  /\ r.pc = "done"
  /\ DOMAIN r.result = {"thrown", "error"}
  /\ r.result.error = Msg(text, "Error", <<>>)

\* invocation p of the tool starts in this step
Starts(p, op) == inv[p].pc = "idle" /\ inv'[p].op = op

\* the statement of C11 as written: From and MessageStream of every payload
\* of sendEmail and sendEmailWithTemplate are the configured sender and stream
C11_SenderAndStreamFixed ==
  \A i \in 1..Len(calls) :
    calls[i].method \in {"sendEmail", "sendEmailWithTemplate"} =>
      /\ calls[i].data.From = env.DEFAULT_SENDER_EMAIL
      /\ calls[i].data.MessageStream = env.DEFAULT_MESSAGE_STREAM

\* C11 amended: for sendEmail and sendEmailWithTemplate the message stream of
\* the payload is the configured stream whatever the arguments; From is the
\* configured sender when from is absent or empty, and the caller's from
\* otherwise.
C11_StreamFixedSenderDefaulted ==
  \A i \in 1..Len(calls) :
    LET c == calls[i] IN
    c.method \in {"sendEmail", "sendEmailWithTemplate"} =>
      /\ c.data.MessageStream = env.DEFAULT_MESSAGE_STREAM
      /\ c.data.From = IF NonEmpty(c.args.from) THEN c.args.from
                       ELSE env.DEFAULT_SENDER_EMAIL

\* sendEmailWithTemplate with a from of its own, and one without, under the
\* second configuration
C11_Witness ==
  /\ env.DEFAULT_MESSAGE_STREAM = Str(<<"broadcast">>)
  /\ env.DEFAULT_SENDER_EMAIL = Str(<<"noreply@example.com">>)
  /\ \E i \in 1..Len(calls) :
       /\ calls[i].method = "sendEmailWithTemplate"
       /\ calls[i].args.from = Undef
       /\ calls[i].data.From = Str(<<"noreply@example.com">>)
       /\ calls[i].data.MessageStream = Str(<<"broadcast">>)

\* C12: sendEmailWithTemplate invoked with neither templateId nor
\* templateAlias ends with the thrown validation error and leaves the log of
\* provider calls as it was; every sendEmailWithTemplate call in the log comes
\* from arguments with a template id or a template alias.
C12_TemplateRefValidated ==
  /\ [](\A p \in ProcIds :
          (/\ inv[p].op = "sendEmailWithTemplate" /\ inv[p].pc # "idle"
           /\ ~NonEmpty(inv[p].args.templateId)
           /\ ~NonEmpty(inv[p].args.templateAlias))
          => ThrewError(inv[p], "Either templateId or templateAlias must be provided"))
  /\ [](\A i \in 1..Len(calls) :
          calls[i].method = "sendEmailWithTemplate" =>
            NonEmpty(calls[i].args.templateId) \/ NonEmpty(calls[i].args.templateAlias))
  /\ [][\A p \in ProcIds :
          (/\ Starts(p, "sendEmailWithTemplate")
           /\ ~NonEmpty(inv'[p].args.templateId)
           /\ ~NonEmpty(inv'[p].args.templateAlias))
          => calls' = calls]_vars

\* the invocation without id and alias has thrown
C12_Witness ==
  \E p \in ProcIds :
    /\ inv[p].op = "sendEmailWithTemplate"
    /\ inv[p].args.templateId = Undef /\ inv[p].args.templateAlias = Undef
    /\ ThrewError(inv[p], "Either templateId or templateAlias must be provided")
    /\ calls = <<>>

\* the keys templateData must have: Name, Subject, the bodies and the alias
\* that were given
CreateKeys(a) ==
  {"Name", "Subject"}
    \cup (IF NonEmpty(a.htmlBody) THEN {"HtmlBody"} ELSE {})
    \cup (IF NonEmpty(a.textBody) THEN {"TextBody"} ELSE {})
    \cup (IF NonEmpty(a.alias) THEN {"Alias"} ELSE {})

\* C13: createTemplate with neither htmlBody nor textBody (absent or empty)
\* ends with the thrown validation error and no provider call; with a body,
\* the provider's createTemplate is called exactly once, with Name, Subject
\* and only the bodies and alias that were given.
C13_CreateTemplateValidated ==
  /\ [](\A p \in ProcIds :
          (/\ inv[p].op = "createTemplate" /\ inv[p].pc # "idle"
           /\ ~NonEmpty(inv[p].args.htmlBody) /\ ~NonEmpty(inv[p].args.textBody))
          => ThrewError(inv[p], "Either htmlBody or textBody must be provided"))
  /\ [](\A i \in 1..Len(calls) :
          LET c == calls[i] IN
          c.method = "createTemplate" =>
            /\ DOMAIN c.data = CreateKeys(c.args)
            /\ {"HtmlBody", "TextBody"} \cap DOMAIN c.data # {}
            /\ c.data.Name = c.args.name /\ c.data.Subject = c.args.subject
            /\ "HtmlBody" \in DOMAIN c.data => c.data.HtmlBody = c.args.htmlBody
            /\ "TextBody" \in DOMAIN c.data => c.data.TextBody = c.args.textBody
            /\ "Alias" \in DOMAIN c.data => c.data.Alias = c.args.alias)
  /\ [][\A p \in ProcIds :
          /\ Starts(p, "createTemplate") =>
               IF NonEmpty(inv'[p].args.htmlBody) \/ NonEmpty(inv'[p].args.textBody)
                 THEN /\ Len(calls') = Len(calls) + 1
                      /\ calls'[Len(calls')].method = "createTemplate"
                      /\ calls'[Len(calls')].args = inv'[p].args
                 ELSE calls' = calls
          /\ (inv[p].op = "createTemplate" /\ inv[p].pc # "idle") => calls' = calls]_vars

\* a template with a text body alone, and one that was refused
C13_Witness ==
  /\ \E i \in 1..Len(calls) :
       /\ calls[i].method = "createTemplate"
       /\ calls[i].args.htmlBody = Undef
       /\ DOMAIN calls[i].data = {"Name", "Subject", "TextBody"}
  /\ \E p \in ProcIds :
       /\ inv[p].op = "createTemplate"
       /\ inv[p].args.htmlBody = Undef /\ inv[p].args.textBody = Undef
       /\ ThrewError(inv[p], "Either htmlBody or textBody must be provided")

\* C14: updateTemplate with none of name, subject, htmlBody, textBody, alias
\* supplied ends with the thrown error and no provider call; with at least one
\* supplied, editTemplate is called exactly once, for the given template, with
\* an update object holding exactly the supplied fields with their values.
C14_UpdateTemplateValidated ==
  /\ [](\A p \in ProcIds :
          (/\ inv[p].op = "updateTemplate" /\ inv[p].pc # "idle"
           /\ \A k \in {"name", "subject", "htmlBody", "textBody", "alias"} :
                ~Supplied(inv[p].args[k]))
          => ThrewError(inv[p], "At least one field must be provided to update"))
  /\ [](\A i \in 1..Len(calls) :
          LET c == calls[i] IN
          c.method = "editTemplate" =>
            /\ c.id = c.args.templateIdOrAlias
            /\ DOMAIN c.data # {}
            /\ ("Name" \in DOMAIN c.data) = Supplied(c.args.name)
            /\ ("Subject" \in DOMAIN c.data) = Supplied(c.args.subject)
            /\ ("HtmlBody" \in DOMAIN c.data) = Supplied(c.args.htmlBody)
            /\ ("TextBody" \in DOMAIN c.data) = Supplied(c.args.textBody)
            /\ ("Alias" \in DOMAIN c.data) = Supplied(c.args.alias)
            /\ DOMAIN c.data \subseteq {"Name", "Subject", "HtmlBody", "TextBody", "Alias"}
            /\ "Name" \in DOMAIN c.data => c.data.Name = c.args.name
            /\ "Subject" \in DOMAIN c.data => c.data.Subject = c.args.subject
            /\ "HtmlBody" \in DOMAIN c.data => c.data.HtmlBody = c.args.htmlBody
            /\ "TextBody" \in DOMAIN c.data => c.data.TextBody = c.args.textBody
            /\ "Alias" \in DOMAIN c.data => c.data.Alias = c.args.alias)
  /\ [][\A p \in ProcIds :
          /\ Starts(p, "updateTemplate") =>
               IF \E k \in {"name", "subject", "htmlBody", "textBody", "alias"} :
                    Supplied(inv'[p].args[k])
                 THEN /\ Len(calls') = Len(calls) + 1
                      /\ calls'[Len(calls')].method = "editTemplate"
                      /\ calls'[Len(calls')].args = inv'[p].args
                 ELSE calls' = calls
          /\ (inv[p].op = "updateTemplate" /\ inv[p].pc # "idle") => calls' = calls]_vars

\* an update of the subject alone, to the empty string, and one that was refused
C14_Witness ==
  /\ \E i \in 1..Len(calls) :
       /\ calls[i].method = "editTemplate"
       /\ calls[i].args.subject = Str(<<>>)
       /\ DOMAIN calls[i].data = {"Subject"}
       /\ calls[i].data.Subject = Str(<<>>)
  /\ \E p \in ProcIds :
       /\ inv[p].op = "updateTemplate"
       /\ ThrewError(inv[p], "At least one field must be provided to update")

(***************************************************************************)
(* Properties of the filesystem-backed tool handlers                       *)
(***************************************************************************)
FsTools == {"listTemplateCategories", "listTemplatesInCategory",
            "getTemplateContent", "getTemplateIdeas"}

\* an invocation of one of the filesystem-backed tools
IsTool(r) == "tool" \in DOMAIN r

\* C17: getTemplateContent invoked with a format other than 'html' and 'text'
\* returns the 'Invalid format' text without throwing, never calls the
\* accessor and never waits for a file system call; the accessor is called
\* only with 'html' or 'text', 'html' standing in for an omitted format.
C17_InvalidFormatHandled ==
  \A p \in ProcIds :
    LET r == inv[p] IN
    (IsTool(r) /\ r.tool = "getTemplateContent") =>
      IF r.toolArgs.format \notin {Str(<<"html">>), Str(<<"text">>), Undef}
        THEN /\ r.pc = "returned"
             /\ r.result = [content |-> Msg("Invalid format", r.toolArgs.format, <<>>)]
             /\ r.op = "idle" /\ r.fn = "" /\ r.target = <<>>
             /\ r.envelope = NoResult
        ELSE /\ r.op = "getTemplateContent"
             /\ r.args.format = IF r.toolArgs.format = Undef THEN Str(<<"html">>)
                                ELSE r.toolArgs.format
             /\ r.args.categoryName = r.toolArgs.categoryName
             /\ r.args.templateName = r.toolArgs.templateName
             /\ r.target[Len(r.target)] =
                  IF r.args.format = Str(<<"html">>) THEN HtmlFile ELSE TextFile

\* the handler has returned the 'Invalid format' text for 'xml'
C17_Witness ==
  \E p \in ProcIds :
    /\ IsTool(inv[p]) /\ inv[p].tool = "getTemplateContent"
    /\ inv[p].toolArgs.format = Str(<<"xml">>)
    /\ inv[p].pc = "returned"
    /\ inv[p].result = [content |-> Msg("Invalid format", Str(<<"xml">>), <<>>)]

\* C18: the four filesystem-backed tools never throw on a failure of the
\* accessor: whenever it answers ok = false the handler returns a text result
\* with a user-facing message (the accessor's message, or the 'not found'
\* text of getTemplateContent), and the payload shows only in results whose
\* envelope has ok = true.
C18_AccessorFailureRendered ==
  \A p \in ProcIds :
    LET r == inv[p] IN
    (IsTool(r) /\ r.tool \in FsTools) =>
      /\ "thrown" \notin DOMAIN r.result
      /\ (r.pc = "returned" /\ r.envelope # NoResult) =>
           /\ DOMAIN r.result = {"content"}
           /\ IsFailure(r.envelope) \/ IsSuccess(r.tool, r.envelope)
           /\ IsFailure(r.envelope) =>
                IF r.tool = "getTemplateContent"
                  THEN /\ r.result.content.text = "not found"
                       /\ "content" \notin DOMAIN r.result.content
                  ELSE r.result.content = r.envelope.message
           /\ ("list" \in DOMAIN r.result.content) =>
                /\ r.envelope.ok
                /\ r.result.content.list = r.envelope[PayloadKey(r.tool)]
           /\ ("content" \in DOMAIN r.result.content) =>
                /\ r.envelope.ok
                /\ r.result.content.content = r.envelope.content

\* listTemplateCategories on a base path that is a file has returned the
\* accessor's message
C18_Witness ==
  \E p \in ProcIds :
    /\ IsTool(inv[p]) /\ inv[p].tool = "listTemplateCategories"
    /\ inv[p].pc = "returned"
    /\ IsFailure(inv[p].envelope) /\ inv[p].envelope.code = "NOT_DIR"
    /\ inv[p].result = [content |-> inv[p].envelope.message]

(***************************************************************************)
(* Properties of the raw-HTTP tool handlers                                *)
(***************************************************************************)
HttpOps == {"getDeliveryStats", "simulateTemplatePush", "executeTemplatePush"}

\* the invocation has its answer from fetch, and it is an HTTP response
Answered(r) == "response" \in DOMAIN r /\ "status" \in DOMAIN r.response

Threw(r) == r.pc = "done" /\ DOMAIN r.result = {"thrown", "error"}

\* a count of the statistics, 0 when the provider left it out
Count(data, field) == IF field \in DOMAIN data THEN data[field].v ELSE 0

\* 100 * part / total rounded to one decimal, halves up, as whole and tenth
Rounded1(part, total) ==
  LET tenths == (2000 * part + total) \div (2 * total)
  IN [whole |-> tenths \div 10, tenth |-> tenths % 10]

\* the statement of C15: getDeliveryStats renders the open rate as
\* 100 * UniqueOpens / Tracked and the click rate as
\* 100 * UniqueLinksClicked / TotalTrackedLinksSent, each rounded to one
\* decimal (8, 4, 6, 3 give 50.0 and 50.0), and as 0.0 when the denominator
\* is 0 or absent.
C15_RatesRounded ==
  \A p \in ProcIds :
    LET r == inv[p] IN
    (r.op = "getDeliveryStats" /\ r.pc = "done" /\ ~Threw(r)) =>
      LET data == r.response.body.value
          tracked == Count(data, "Tracked")
          links == Count(data, "TotalTrackedLinksSent")
      IN /\ r.result.openRate =
              IF tracked = 0 THEN [whole |-> 0, tenth |-> 0]
              ELSE Rounded1(Count(data, "UniqueOpens"), tracked)
         /\ r.result.clickRate =
              IF links = 0 THEN [whole |-> 0, tenth |-> 0]
              ELSE Rounded1(Count(data, "UniqueLinksClicked"), links)

Framing(op) ==
  IF op = "simulateTemplatePush"
    THEN [title |-> "Template Push Simulation Results",
          totalLabel |-> "Total Templates Affected: ",
          intro |-> "Templates that would be affected:",
          none |-> "No templates would be affected.",
          note |-> "Note: This was a simulation only. No changes were made."]
    ELSE [title |-> "Template Push Execution Results",
          totalLabel |-> "Total Templates Processed: ",
          intro |-> "Templates that were processed:",
          none |-> "No templates were processed.",
          note |-> "Note: Changes have been applied to the destination server."]

\* name, alias, action, type and template id of every pushed template
PushedList(result) ==
  [i \in 1..Len(result.Templates) |->
     LET t == result.Templates[i] IN
     [name |-> t.Name,
      alias |-> IF t.Alias \in {Undef, Str(<<>>)} THEN Str(<<"no alias">>) ELSE t.Alias,
      action |-> t.Action, type |-> t.TemplateType,
      id |-> IF t.TemplateId \in {Undef, Num(0)} THEN Str(<<"N/A">>) ELSE t.TemplateId]]

\* C19: simulateTemplatePush sends PerformChanges = false and
\* executeTemplatePush sends PerformChanges = true, each in a PUT to
\* templates/push with the given SourceServerID and DestinationServerID; from
\* the same response both render the same list of templates and the same
\* ids and total, and differ in the framing words alone.
C19_PushRequestAndList ==
  /\ \A i \in 1..Len(calls) :
       LET c == calls[i] IN
       (c.method = "fetch" /\ c.op \in PushOps) =>
         /\ c.request.method = "PUT"
         /\ c.request.url = "https://api.postmarkapp.com/templates/push"
         /\ c.request.body =
              Json([SourceServerID |-> c.args.sourceServerID,
                    DestinationServerID |-> c.args.destinationServerID,
                    PerformChanges |-> Bool(c.op = "executeTemplatePush")])
  /\ \A p \in ProcIds :
       LET r == inv[p] IN
       (r.op \in PushOps /\ r.pc = "done" /\ ~Threw(r)) =>
         LET result == r.response.body.value
             f == Framing(r.op)
         IN r.result =
              [title |-> f.title,
               source |-> r.args.sourceServerID,
               destination |-> r.args.destinationServerID,
               totalLabel |-> f.totalLabel,
               total |-> result.TotalCount,
               listing |-> IF result.TotalCount > 0
                             THEN [intro |-> f.intro, list |-> PushedList(result)]
                             ELSE [intro |-> f.none, list |-> <<>>],
               note |-> f.note]
  /\ \A k \in {"title", "totalLabel", "intro", "none", "note"} :
       Framing("simulateTemplatePush")[k] # Framing("executeTemplatePush")[k]

\* an executed push of two templates, one without alias and id
C19_Witness ==
  /\ \E i \in 1..Len(calls) :
       /\ calls[i].method = "fetch" /\ calls[i].op = "executeTemplatePush"
       /\ calls[i].request.body.value.PerformChanges = Bool(TRUE)
       /\ calls[i].request.body.value.SourceServerID = Str(<<"s2">>)
  /\ \E p \in ProcIds :
       /\ inv[p].op = "executeTemplatePush" /\ inv[p].pc = "done" /\ ~Threw(inv[p])
       /\ Len(inv[p].result.listing.list) = 2
       /\ inv[p].result.listing.list[2].alias = Str(<<"no alias">>)

\* C20: simulateTemplatePush and executeTemplatePush invoked while
\* POSTMARK_ACCOUNT_TOKEN is absent or empty end with the thrown error and
\* issue no HTTP request.
C20_PushNeedsAccountToken ==
  /\ [](\A p \in ProcIds :
          (/\ inv[p].op \in PushOps /\ inv[p].pc # "idle"
           /\ env.POSTMARK_ACCOUNT_TOKEN \in {Undef, Str(<<>>)})
          => ThrewError(inv[p], "POSTMARK_ACCOUNT_TOKEN environment variable is required for template push operations"))
  /\ [](\A i \in 1..Len(calls) :
          (calls[i].method = "fetch" /\ calls[i].op \in PushOps) =>
            env.POSTMARK_ACCOUNT_TOKEN \notin {Undef, Str(<<>>)})
  /\ [][\A p \in ProcIds :
          (/\ inv[p].pc = "idle" /\ inv'[p].op \in PushOps
           /\ env.POSTMARK_ACCOUNT_TOKEN \in {Undef, Str(<<>>)})
          => calls' = calls]_vars

\* a push refused under an empty account token
C20_Witness ==
  \E p \in ProcIds :
    /\ env.POSTMARK_ACCOUNT_TOKEN = Str(<<>>)
    /\ inv[p].op = "simulateTemplatePush"
    /\ ThrewError(inv[p], "POSTMARK_ACCOUNT_TOKEN environment variable is required for template push operations")
    /\ calls = <<>>

\* the statement of C23 on the raw-HTTP tools: a non-2xx answer of the
\* provider ends the invocation with a thrown error, never with a rendered
\* text, and the error carries the provider's status and, when the answer
\* has one, the provider's Message.
C23_ProviderFailureFolded ==
  \A p \in ProcIds :
    LET r == inv[p] IN
    (r.op \in HttpOps /\ r.pc = "done" /\ Answered(r)
       /\ r.response.status \notin 200..299) =>
      /\ Threw(r)
      /\ r.result.error.status = r.response.status
      /\ (/\ r.response.body.json
          /\ "Message" \in DOMAIN r.response.body.value
          /\ r.response.body.value.Message # Str(<<>>))
         => r.result.error.detail = r.response.body.value.Message

(***************************************************************************)
(* Properties of the accessor under removals and under foreign arguments   *)
(***************************************************************************)
\* the failure envelope of r reports the exception named text
FailedWith(r, text) ==
  /\ Done(r) /\ r.op \in AccessorOps
  /\ IsFailure(r.result)
  /\ r.result.message.text = text

\* the statement of C25: an accessor operation that meets a path which is
\* gone (ENOENT), also one that passed the existence probe and was removed
\* before it is stat-ed, listed or read, ends in a failure envelope with
\* code NOT_FOUND.
C25_RemovalIsNotFound ==
  \A p \in ProcIds :
    (FailedWith(inv[p], "ENOENT") /\ ~inv[p].faulted) =>
      inv[p].result.code = "NOT_FOUND"

\* the statement of C26: an exception that is neither a missing path, a
\* non-directory path nor a file system error (the TypeError of a topic or
\* of a path argument that is not a string) ends the operation in a failure
\* envelope with code UNEXPECTED_ERROR.
C26_UnexpectedErrorCode ==
  \A p \in ProcIds :
    (\/ FailedWith(inv[p], "TypeError")
     \/ FailedWith(inv[p], "ERR_INVALID_ARG_TYPE")) =>
      inv[p].result.code = "UNEXPECTED_ERROR"

(***************************************************************************)
(* The template reference of sendEmailWithTemplate                         *)
(***************************************************************************)
\* C30: every payload sendEmailWithTemplate hands to the provider has exactly
\* one of TemplateId and TemplateAlias: TemplateId, with the id of the call,
\* when a (non-zero) templateId is given, whether or not an alias is given
\* too, and TemplateAlias, with the alias of the call, otherwise.
C30_OneTemplateRef ==
  \A i \in 1..Len(calls) :
    LET c == calls[i] IN
    c.method = "sendEmailWithTemplate" =>
      /\ ("TemplateId" \in DOMAIN c.data) # ("TemplateAlias" \in DOMAIN c.data)
      /\ "TemplateId" \in DOMAIN c.data <=> NonEmpty(c.args.templateId)
      /\ "TemplateId" \in DOMAIN c.data => c.data.TemplateId = c.args.templateId
      /\ "TemplateAlias" \in DOMAIN c.data =>
           /\ c.data.TemplateAlias = c.args.templateAlias
           /\ NonEmpty(c.args.templateAlias)

\* a call with both an id and an alias: the payload carries the id alone
C30_Witness ==
  \E i \in 1..Len(calls) :
    /\ calls[i].method = "sendEmailWithTemplate"
    /\ calls[i].args.templateId = Num(42)
    /\ calls[i].args.templateAlias = Str(<<"welcome">>)
    /\ "TemplateId" \in DOMAIN calls[i].data
    /\ "TemplateAlias" \notin DOMAIN calls[i].data

(***************************************************************************)
(* Properties of the process: registration, startup and shutdown           *)
(***************************************************************************)
ToolNames ==
  {"sendEmail", "sendEmailWithTemplate", "listTemplates", "getDeliveryStats",
   "listTemplateCategories", "listTemplatesInCategory", "getTemplateContent",
   "getTemplateIdeas", "createTemplate", "updateTemplate", "deleteTemplate",
   "simulateTemplatePush", "executeTemplatePush"}

\* C21: once registerTools has run, the registrations are the thirteen named
\* tools, each once, and no step of the process or of a tool handler changes
\* them afterwards.
C21_ThirteenToolsOnce ==
  /\ [](server.tools # <<>> =>
          /\ Len(server.tools) = 13
          /\ Range(server.tools) = ToolNames
          /\ Cardinality(ToolNames) = 13)
  /\ [][server.tools # <<>> => server.tools' = server.tools]_vars

\* tools of the registered server have run and returned
C21_Witness ==
  /\ Len(server.tools) = 13
  /\ Len(calls) = 1 /\ calls[1].method = "deleteTemplate"
  /\ \E p \in ProcIds : inv[p].op = "getTemplateIdeas" /\ inv[p].pc = "returned"

\* the three required configuration values are present
ConfigPresent ==
  /\ NonEmpty(env.POSTMARK_SERVER_TOKEN)
  /\ NonEmpty(env.DEFAULT_SENDER_EMAIL)
  /\ NonEmpty(env.DEFAULT_MESSAGE_STREAM)

\* C22: with a required configuration value missing (absent or empty) the
\* process, once main has run, has exited with code 1 without a registered
\* tool and without a connected transport, and it does exit; tools are
\* registered and the transport is connected only with all three values
\* present and the provider client verified.
C22_StartupGate ==
  /\ []((~ConfigPresent /\ server.phase # "loaded") =>
          /\ server.phase = "exited" /\ server.exitCode = 1
          /\ server.tools = <<>> /\ ~server.connected)
  /\ []((server.tools # <<>> \/ server.connected) =>
          ConfigPresent /\ server.verified)
  /\ [](server.connected => server.tools # <<>>)
  /\ (~ConfigPresent ~> server.phase = "exited")

\* the process that was started without a message stream has exited
C22_Witness ==
  /\ env.POSTMARK_SERVER_TOKEN = Str(<<"server">>)
  /\ env.DEFAULT_SENDER_EMAIL = Str(<<"from@example.com">>)
  /\ env.DEFAULT_MESSAGE_STREAM = Str(<<>>)
  /\ server.phase = "exited" /\ server.exitCode = 1
  /\ server.tools = <<>>

\* C24: a signal that reaches the connected server does not end the process
\* itself: the process exits with code 0 only from the shutdown handler
\* after its disconnect succeeded, and with code 1 on every other exit (a
\* disconnect that raised, a fatal handler whether or not its disconnect
\* succeeded); a handler that waits for a disconnect leads to the exit.
C24_ShutdownExitCodes ==
  /\ [][(server'.phase = "exited" /\ server.phase # "exited") =>
          server'.exitCode =
            IF server'.shutdowns < server.shutdowns /\ ~server'.connected
              THEN 0 ELSE 1]_vars
  /\ [][(server'.shutdowns > server.shutdowns) =>
          /\ server.connected /\ server.disconnect
          /\ server'.phase = "running" /\ server'.exitCode = -1]_vars
  /\ [](server.exitCode = 0 => ~server.connected /\ ~server.global)
  /\ ((server.shutdowns > 0 \/ server.fatals > 0) ~> server.phase = "exited")

\* a shutdown after a successful disconnect, while a second handler waited
C24_Witness ==
  /\ server.phase = "exited" /\ server.exitCode = 0
  /\ ~server.connected
  /\ server.shutdowns + server.fatals = 1

\* C27: a step appends at most one request to the log of provider
\* requests, and only as a handler starts; an invocation that waits for its
\* request issues no other one, and when the request settles, with an answer
\* or with a failure, the invocation ends.
C27_NoRetry ==
  /\ [][/\ Len(calls') <= Len(calls) + 1
          /\ (calls' # calls =>
                (\E q \in ProcIds :
                   inv[q].pc = "idle" /\ inv'[q].pc \in {"provider", "fetch"}))
          /\ \A p \in ProcIds :
                inv[p].pc \in {"provider", "fetch"} =>
                  /\ calls' = calls
                  /\ (inv'[p] # inv[p] => inv'[p].pc = "done")]_vars
  /\ [](\A p \in ProcIds :
          (inv[p].pc = "done" /\ "response" \in DOMAIN inv[p]
             /\ ~Answered(inv[p])) => Threw(inv[p]))

\* a push whose request was rejected has ended with the failure, after one
\* request
C27_Witness ==
  \E p \in ProcIds :
    /\ inv[p].op = "executeTemplatePush" /\ Threw(inv[p])
    /\ "response" \in DOMAIN inv[p] /\ ~Answered(inv[p])
    /\ Len(calls) = 1

(***************************************************************************)
(* Properties of the base path resolution                                  *)
(***************************************************************************)
\* the statement of C29: both functions return POSTMARK_TEMPLATES_PATH when
\* it is set, else TEMPLATES_BASE_PATH when it is set, else the default
\* below the working directory, and hence the same path under every setting
\* of the two variables.
C29_SameBasePath ==
  \A p \in ProcIds :
    (inv[p].pc = "done"
       /\ inv[p].op \in {"resolveTemplatesBasePath", "getTemplatesBasePath"}) =>
      /\ inv[p].result =
           IF NonEmpty(env.POSTMARK_TEMPLATES_PATH) THEN env.POSTMARK_TEMPLATES_PATH
           ELSE IF NonEmpty(env.TEMPLATES_BASE_PATH) THEN env.TEMPLATES_BASE_PATH
           ELSE Str(<<"cwd", "/", "postmark-templates", "/", "templates-inlined">>)
      /\ ResolveTemplatesBasePath(env) = GetTemplatesBasePath(env)

\* the value is a string of white space only
Blank(a) == NonEmpty(a) /\ \A i \in 1..Len(a.v) : a.v[i] \in {" ", "\t"}

\* the first of the two override variables that counts as set, else the
\* default below the working directory
FirstSet(IsSet(_)) ==
  IF IsSet(env.POSTMARK_TEMPLATES_PATH) THEN env.POSTMARK_TEMPLATES_PATH
  ELSE IF IsSet(env.TEMPLATES_BASE_PATH) THEN env.TEMPLATES_BASE_PATH
  ELSE Str(<<"cwd", "/", "postmark-templates", "/", "templates-inlined">>)

NotBlank(a) == NonEmpty(a) /\ ~Blank(a)

\* C29, amended: both functions take POSTMARK_TEMPLATES_PATH, else
\* TEMPLATES_BASE_PATH, else the default below the working directory; a
\* variable counts as set for the tool handlers when it is not empty and for
\* the configuration module when it is not blank, and the two resolve the
\* same path whenever neither variable is blank.
C29_BasePathOrder ==
  \A p \in ProcIds :
    /\ (inv[p].pc = "done" /\ inv[p].op = "resolveTemplatesBasePath") =>
         inv[p].result = FirstSet(NonEmpty)
    /\ (inv[p].pc = "done" /\ inv[p].op = "getTemplatesBasePath") =>
         inv[p].result = FirstSet(NotBlank)
    /\ (~Blank(env.POSTMARK_TEMPLATES_PATH) /\ ~Blank(env.TEMPLATES_BASE_PATH)) =>
         ResolveTemplatesBasePath(env) = GetTemplatesBasePath(env)

\* the configuration module has resolved the fallback variable while the
\* override is empty
C29_Witness ==
  \E p \in ProcIds :
    /\ inv[p].pc = "done" /\ inv[p].op = "getTemplatesBasePath"
    /\ env.POSTMARK_TEMPLATES_PATH = Str(<<>>)
    /\ env.TEMPLATES_BASE_PATH = Str(<<"/", "b">>)
    /\ inv[p].result = Str(<<"/", "b">>)

(***************************************************************************)
(* Properties of invocations in flight at once                             *)
(***************************************************************************)
\* the accessor call of the handler, as the handler makes it
StartOf(r) ==
  CASE r.op = "listTemplateCategories" -> EnterListTemplateCategories(r.args.base)
    [] r.op = "listTemplatesInCategory" ->
         EnterListTemplatesInCategory(r.args.base, r.args.categoryName)
    [] r.op = "getTemplateContent" ->
         EnterGetTemplateContent(r.args.base, r.args.categoryName,
                                 r.args.templateName, r.args.format)
    [] r.op = "getTemplateIdeas" -> EnterGetTemplateIdeas(r.args.base, r.args.topic)

\* the invocation run by itself against the tree, to its end
RECURSIVE RunAlone(_, _)
RunAlone(r, tree) ==
  IF r.pc \in {"access", "lstat", "readdir", "readFile"}
    THEN RunAlone(FsSettled(r, tree, FALSE), tree)
    ELSE r

\* the result of the finished invocation r is the one it has when it runs by
\* itself against the same tree, configuration and provider answer
SameAsAlone(r) ==
  /\ ("tool" \in DOMAIN r /\ r.pc = "returned" /\ r.op # "idle" /\ ~r.faulted) =>
       /\ r.envelope = RunAlone(StartOf(r), fs).result
       /\ r.result = ToolResult(r.tool, r.toolArgs, RunAlone(StartOf(r), fs).result)
  /\ (r.op = "getDeliveryStats" /\ r.pc = "done") =>
       r.result = StatsSettled([Idle EXCEPT !.op = r.op, !.args = r.args],
                               r.response).result
  /\ (r.op = "sendEmail" /\ r.pc = "done" /\ ~Threw(r)) =>
       r.result = SendEmailText(r.args, "mid-1")

====
